---- MODULE Spec2Model ----
(***************************************************************************)
(* k8s-autoscaler-benchmarker: the benchmark run of internal/bench         *)
(* (RunBenchmark, executeBenchmark, setupAndCleanupDeployment,             *)
(* monitorDeregistrationAndTermination), the monitors of internal/aws and  *)
(* internal/k8s, and main's context, signal handler and exit.              *)
(*                                                                         *)
(* Goroutines are interleaved one statement group at a time.  Wall-clock   *)
(* time is not measured: a timer (time.Sleep, a Ticker, the provisioning   *)
(* timeout) may fire at any step, and time.Since(startTime) is a positive  *)
(* number drawn from Durations when a monitor returns.                     *)
(*                                                                         *)
(* Spec is the whole run.  Further specifications look closer at parts of  *)
(* it: SpecEC2 at one GetEC2Instances call and what its caller makes of    *)
(* the result, SpecPolls at the polls of phases 1 to 3 with the            *)
(* inventory's answers kept, SpecTimed at the monitors with their clocks   *)
(* in seconds, SpecProvisioning at the provisioning monitor and its        *)
(* prompt, SpecStartup at main before executeBenchmark, SpecSummary at     *)
(* one PrintSummary call.                                                  *)
(***************************************************************************)
EXTENDS Integers, Sequences, FiniteSets, TLC

\* ------------------------------------------------------------- bounds
MaxInst == 2       \* instances one DescribeInstancesPages listing can hold
MaxNodes == 2      \* nodes one Nodes().List answer can hold
MaxDur == 2        \* largest elapsed time a monitor reports

MaxTimeoutMin == 2      \* largest value of a --*-timeout flag, in minutes
MaxClock == 70          \* the monitors' clocks stop here, in seconds

\* -------------------------------------------------- program constants
\* Durations of the program, in seconds.
timeout == 60
ProvisioningSleepInterval == 1
NodeStatusPollInterval == 5
PodStatusPollInterval == 1
MaxRetries == 5
DeregChanCap == 1
TermChanCap == 1
\* A mutant of ErrChanCap: the error channel has one slot, like the other two.
ErrChanSingleSlot == DeregChanCap

ErrChanCap == 2
BaseBackoffDelay == 1
ProgramStartTime == 1
Replicas == 1

Nil == "nil"
Durations == 1..MaxDur

\* ---------------------------------------------------- EC2 inventory
InstanceStates == {"pending", "running", "terminated"}
LaunchTimes == {ProgramStartTime - 1, ProgramStartTime, ProgramStartTime + 1}

\* One page set of a listing: instance k of the listing has id k.
Pages ==
  UNION { [1..n -> [launch : LaunchTimes, state : InstanceStates]] : n \in 0..MaxInst }

Instance(page, k) == [id |-> k, launch |-> page[k].launch, state |-> page[k].state]

Listing(page, n) == [k \in 1..n |-> Instance(page, k)]

\* The callback of DescribeInstancesPages: what one delivered listing appends.
RECURSIVE KeepInstances(_)
KeepInstances(delivered) ==
  IF delivered = <<>> THEN <<>>
  ELSE LET instance == Head(delivered)
       IN  IF instance.launch > ProgramStartTime /\ instance.state # "terminated"
           THEN <<instance>> \o KeepInstances(Tail(delivered))
           ELSE KeepInstances(Tail(delivered))

\* A script is what the EC2 API answers to the successive attempts of one call:
\* attempt a delivers script[a].delivered to the callback and ends with
\* script[a].err ("nil", "Throttling" or "Other").
\* A mutant of NextBackoff: the wait grows by BaseBackoffDelay each time.
NextBackoffLinear(backoffDuration) == backoffDuration + BaseBackoffDelay

\* backoffDuration *= 2
NextBackoff(backoffDuration) == backoffDuration * 2

RECURSIVE SumSeq(_)
SumSeq(seq) == IF seq = <<>> THEN 0 ELSE Head(seq) + SumSeq(Tail(seq))


RECURSIVE GetEC2Attempt(_, _, _, _, _)
GetEC2Attempt(script, retries, instances, backoffDuration, slept) ==
  IF retries >= MaxRetries
  THEN [instances |-> instances, err |-> Nil, attempts |-> retries, slept |-> slept]
  ELSE LET answer == script[retries + 1]
           got == instances \o KeepInstances(answer.delivered)
       IN  IF answer.err = "Throttling"
           THEN GetEC2Attempt(script, retries + 1, got, NextBackoff(backoffDuration),
                              Append(slept, backoffDuration))
           ELSE IF answer.err # Nil
           THEN [instances |-> <<>>, err |-> "describe", attempts |-> retries + 1,
                 slept |-> slept]
           ELSE [instances |-> got, err |-> Nil, attempts |-> retries + 1,
                 slept |-> slept]

GetEC2Instances(script) == GetEC2Attempt(script, 0, <<>>, BaseBackoffDelay, <<>>)

\* Scripts: k throttled attempts that each delivered the first j instances of
\* the listing, then (when an attempt is left) one that delivers the whole
\* listing, or fails with another error after the first j instances.
Script(page, j, k, last) ==
  [a \in 1..(IF k < MaxRetries THEN k + 1 ELSE MaxRetries) |->
     IF a <= k
     THEN [delivered |-> Listing(page, j), err |-> "Throttling"]
     ELSE IF last = Nil
     THEN [delivered |-> Listing(page, Len(page)), err |-> Nil]
     ELSE [delivered |-> Listing(page, j), err |-> last]]

Scripts ==
  UNION { { Script(page, j, k, last) :
              j \in 0..Len(page), k \in 0..MaxRetries, last \in {Nil, "Other"} } :
          page \in Pages }

EC2Outcomes == { GetEC2Instances(script) : script \in Scripts }

\* What MonitorInstanceProvisioning reads of one GetEC2Instances result.
ProvisioningAnswers ==
  { [err |-> o.err, n |-> Len(o.instances),
     first |-> IF Len(o.instances) > 0 THEN o.instances[1].state ELSE "none"] :
    o \in EC2Outcomes }

\* What MonitorInstanceTermination reads of one GetEC2Instances result.
TerminationAnswers == { [err |-> o.err, n |-> Len(o.instances)] : o \in EC2Outcomes }

\* ------------------------------------------------ Kubernetes inventory
\* A node is the list of its status conditions.
Ready == [type |-> "Ready", status |-> "True"]
NotReady == [type |-> "Ready", status |-> "False"]
MemoryPressure == [type |-> "MemoryPressure", status |-> "True"]
NodeConditions ==
  { <<>>, <<Ready>>, <<NotReady>>, <<MemoryPressure, Ready>>, <<Ready, Ready>> }
NodeLists == UNION { [1..n -> NodeConditions] : n \in 0..MaxNodes }

RECURSIVE HasReadyCondition(_)
HasReadyCondition(conditions) ==
  IF conditions = <<>> THEN FALSE
  ELSE IF Head(conditions).type = "Ready" /\ Head(conditions).status = "True"
  THEN TRUE
  ELSE HasReadyCondition(Tail(conditions))

RECURSIVE countReadyNodes(_)
countReadyNodes(nodes) ==
  IF nodes = <<>> THEN 0
  ELSE (IF HasReadyCondition(Head(nodes)) THEN 1 ELSE 0) + countReadyNodes(Tail(nodes))

NodeCounts == { [ready |-> countReadyNodes(nodes), n |-> Len(nodes)] : nodes \in NodeLists }

\* A client-go call made with a cancelled context fails; otherwise it fails
\* or answers.
NodesList(ctxDone) ==
  IF ctxDone
  THEN { [err |-> "context canceled", ready |-> 0, n |-> 0] }
  ELSE { [err |-> "api", ready |-> 0, n |-> 0] }
       \cup { [err |-> Nil, ready |-> c.ready, n |-> c.n] : c \in NodeCounts }

DeploymentsGet(ctxDone) ==
  IF ctxDone
  THEN { [err |-> "context canceled", ReadyReplicas |-> 0] }
  ELSE { [err |-> "api", ReadyReplicas |-> 0] }
       \cup { [err |-> Nil, ReadyReplicas |-> r] : r \in 0..(Replicas + 1) }

\* CreateDeployment, ScaleDeployment: the error of one call.
DeploymentsWrite(ctxDone) == IF ctxDone THEN {"context canceled"} ELSE {Nil, "api"}

\* ------------------------------------------------------------- state
DeploymentNames == {"", "inflate", "web"}   \* --deployment: none, or a deployment's name
ContainerNames == {"inflate"}               \* --container-name
Monitors == {"prov", "reg", "ready", "dereg", "term"}
Branches == {"dereg", "term"}
NilErr == [phase |-> "none", cause |-> Nil]
Wrap(phase, cause) == [phase |-> phase, cause |-> cause]
NoResult == [ProvisioningTime |-> 0, RegistrationTime |-> 0, PodReadinessTime |-> 0,
             DeregistrationTime |-> 0, TerminationTime |-> 0]
NotReturned == [returned |-> FALSE, ok |-> FALSE, res |-> NoResult, err |-> NilErr]
MonitorRunning == [returned |-> FALSE, dur |-> 0, err |-> Nil]
MonitorReturned(dur, err) == [returned |-> TRUE, dur |-> dur, err |-> err]
CoordRunning == [returned |-> FALSE, dereg |-> 0, term |-> 0, err |-> NilErr]
OpenChan == [buf |-> <<>>, closed |-> FALSE]
\* What reader.ReadString('\n') can return at the prompt: a line up to and with
\* its newline, or what was typed before the input ended and the error io.EOF.
\* A line is the sequence of its words and white-space characters.
WhiteSpace == {" ", "\t", "\n", "\r"}
InputLines ==
  { <<"yes", "\n">>, <<" ", "yes", "\t", "\r", "\n">>, <<"no", "\n">>, <<"no", " ", "\n">>,
    <<"\n">>, <<"maybe", "\n">>, <<"yes", " ", "no", "\n">>, <<"YES", "\n">> }
Inputs ==
  [line : InputLines, err : {Nil}] \cup [line : {<<>>, <<"yes">>}, err : {"EOF"}]
NoInput == [line |-> <<>>, err |-> Nil]

\* A mutant of TrimSpace: the line is compared as it was read.
TrimSpaceNone(line) == line

\* strings.TrimSpace: the leading and the trailing white space is cut off.
RECURSIVE TrimLeft(_)
TrimLeft(line) ==
  IF line # <<>> /\ Head(line) \in WhiteSpace THEN TrimLeft(Tail(line)) ELSE line
RECURSIVE TrimRight(_)
TrimRight(line) ==
  IF line # <<>> /\ line[Len(line)] \in WhiteSpace
  THEN TrimRight(SubSeq(line, 1, Len(line) - 1)) ELSE line
TrimSpace(line) == TrimRight(TrimLeft(line))

\* What the prompt's loop makes of one read: the read failed ("EOF"), the
\* trimmed answer is "yes" or "no", or it is something else ("other").
ReadAnswer(input) ==
  IF input.err # Nil THEN "EOF"
  ELSE LET answer == TrimSpace(input.line)
       IN  IF answer = <<"no">> THEN "no"
           ELSE IF answer = <<"yes">> THEN "yes"
           ELSE "other"
Answers == { ReadAnswer(input) : input \in Inputs }

VARIABLES
  cfg,          \* DeploymentConfig: DeploymentName, ContainerName
  created,      \* SetupDeployment created the deployment (it did not scale one)
  deployed,     \* the name of the deployment SetupDeployment created or scaled
  cancelled,    \* main's ctx is done
  signalled,    \* the signal goroutine has received SIGINT/SIGTERM
  sigAt,        \* pc and the polling monitors when the signal arrived
  mainPc,       \* main: "run", "defer", "return", "exited"
  exitCode,     \* the process's exit code, -1 while it runs
  summary,      \* the durations PrintSummary wrote, <<>> when it wrote none
  pc,           \* executeBenchmark: "setup", "prov", "reg", "ready", "scale0",
                \* "scaledown", "returned"
  provPc,       \* MonitorInstanceProvisioning: "sleep", "prompt", "query"
  expected,     \* expectedNodeCount of the running MonitorNodeRegistration
  result,       \* executeBenchmark's BenchmarkResult
  ret,          \* what executeBenchmark returned
  monRet,       \* what each monitor returned
  started,      \* the steps of executeBenchmark in the order they started
  scaleErr,     \* the error ScaleDeployment(..., 0) returned, "pending" before
  retOrder,     \* the scale-down branches in the order their monitors returned
  br,           \* scale-down goroutines: "idle", "polling", "publish", "done", "exit"
  brRet,        \* (duration, err) a branch's monitor returned, not yet published
  wg,           \* the WaitGroup counter
  closerPc,     \* closing goroutine: "idle", "wait", "errChan", "deregChan",
                \* "termChan", "exit"
  errChan, deregChan, termChan,
  i, deregTime, termTime,   \* locals of the collecting loop
  coordRet,     \* what monitorDeregistrationAndTermination returned
  panicked,     \* a goroutine sent on, or closed, a closed channel
  cleanupPc,    \* cleanup goroutine: "none", "waiting", "deleting", "exit"
  deleteCalls,  \* the deployment names DeleteDeployment was invoked with
  lastQuery,    \* the monitor that queried its inventory in the last step
  call,         \* the last GetEC2Instances call: its caller, the API's answers, its
                \* result and what the caller made of it
  seen,         \* what the last poll of a monitor read from its inventory
  elapsed,      \* time.Since(startTime) of each monitor, in seconds
  timeouts,     \* Config.Timeouts, in seconds
  startup,      \* main before executeBenchmark: the selector flags, the nodes that
                \* carry the node-group label, the stage reached, the client calls
                \* made and the error that ended the start
  stdout        \* a PrintSummary call: its five arguments and the lines it wrote

setupVars == <<cfg, created, deployed>>
ctxVars == <<cancelled, signalled, sigAt>>
mainVars == <<mainPc, exitCode, summary>>
execVars == <<pc, provPc, expected, result, ret, monRet, started, scaleErr>>
scaleVars == <<br, brRet, retOrder, wg, closerPc, errChan, deregChan, termChan, i, deregTime,
               termTime, coordRet, panicked>>
cleanupVars == <<cleanupPc, deleteCalls>>
auxVars == <<call, seen, elapsed, timeouts, startup, stdout>>
vars == <<setupVars, ctxVars, mainVars, execVars, scaleVars, cleanupVars, lastQuery, auxVars>>

Running == mainPc # "exited"

\* The monitor whose query reached its inventory in a step of monitor m: a
\* client-go call made with a cancelled context returns the context's error
\* without a request to the API server.
Reached(m) == IF cancelled THEN "none" ELSE m

Polling(m) ==
  CASE m = "prov" -> pc = "prov"
    [] m = "reg" -> pc = "reg"
    [] m = "ready" -> pc = "ready"
    [] OTHER -> br[m] = "polling"

\* The auxiliary variables before any call, poll or tick.
NoCall == [monitor |-> "none", inventory |-> <<>>, script |-> <<>>,
           out |-> [instances |-> <<>>, err |-> Nil, attempts |-> 0, slept |-> <<>>],
           verdict |-> [kind |-> "none", count |-> 0]]
NoPoll == [monitor |-> "none", err |-> Nil, instances |-> <<>>, nodes |-> <<>>,
           ReadyReplicas |-> 0, answer |-> "none", input |-> NoInput]
NotStarted == [m \in Monitors |-> 0]

\* The defaults of the five timeout flags, in seconds.
DefaultTimeouts == [prov |-> 10 * 60, reg |-> 10 * 60, ready |-> 5 * 60,
                    dereg |-> 10 * 60, term |-> 10 * 60]

\* The program's state when main calls RunBenchmark.
InitRun ==
  /\ cfg \in [DeploymentName : DeploymentNames, ContainerName : ContainerNames]
  /\ created = FALSE /\ deployed = ""
  /\ cancelled = FALSE /\ signalled = FALSE /\ sigAt = [pc |-> "none", polling |-> {}]
  /\ mainPc = "run" /\ exitCode = -1 /\ summary = <<>>
  /\ pc = "setup" /\ provPc = "sleep" /\ expected = 0
  /\ result = NoResult /\ ret = NotReturned
  /\ monRet = [m \in Monitors |-> MonitorRunning]
  /\ started = <<>> /\ scaleErr = "pending" /\ retOrder = <<>>
  /\ br = [b \in Branches |-> "idle"] /\ brRet = [b \in Branches |-> MonitorRunning]
  /\ wg = 0 /\ closerPc = "idle"
  /\ errChan = OpenChan /\ deregChan = OpenChan /\ termChan = OpenChan
  /\ i = 0 /\ deregTime = 0 /\ termTime = 0
  /\ coordRet = CoordRunning /\ panicked = FALSE
  /\ cleanupPc = "none" /\ deleteCalls = <<>>
  /\ lastQuery = "none"

\* main has called executeBenchmark: the configuration was valid, the clients
\* were made and the autoscaler's precondition held.
Started == [entry |-> "cmd", NodepoolTag |-> "benchmark", NodeGroup |-> "", labelled |-> 0,
            stage |-> "ready", calls |-> <<"DescribeRegions">>, err |-> Nil]
NoSummary == [args |-> <<>>, lines |-> <<>>]

Init ==
  /\ InitRun
  /\ call = NoCall /\ seen = NoPoll
  /\ elapsed = NotStarted /\ timeouts = DefaultTimeouts
  /\ startup = Started /\ stdout = NoSummary

\* ------------------------------------------------- executeBenchmark
\* A mutant of Failed: executeBenchmark goes on after a step's error.
FailedIgnored(err) == FALSE

\* `if err != nil { return nil, ... }` after every step of executeBenchmark.
Failed(err) == err # Nil

\* executeBenchmark returns (nil, err).
ReturnError(err) ==
  /\ pc' = "returned"
  /\ ret' = [returned |-> TRUE, ok |-> FALSE, res |-> NoResult, err |-> err]

\* The condition under which setupAndCleanupDeployment starts the cleanup goroutine.
RegistersCleanup(c) == c.DeploymentName = "" \/ c.DeploymentName = c.ContainerName

\* SetupDeployment: the deployment it creates (named after the container) or
\* scales (the one --deployment names).
SetupDeployment(c) == IF c.DeploymentName = "" THEN c.ContainerName ELSE c.DeploymentName

\* A mutant of ActualName: the empty name is kept.
ActualNameKept(c) == c.DeploymentName

\* `if cfg.DeploymentName == "" { cfg.DeploymentName = cfg.ContainerName }`
ActualName(c) == IF c.DeploymentName = "" THEN c.ContainerName ELSE c.DeploymentName

setupAndCleanupDeployment ==
  /\ Running /\ pc = "setup"
  /\ \E err \in DeploymentsWrite(cancelled) :
       IF Failed(err)
       THEN /\ ReturnError(Wrap("setup", err))
            /\ UNCHANGED <<cfg, created, deployed, cleanupPc, started>>
       ELSE /\ created' = (cfg.DeploymentName = "")
            /\ deployed' = SetupDeployment(cfg)
            /\ IF RegistersCleanup(cfg)
               THEN /\ cfg' = [cfg EXCEPT !.DeploymentName = ActualName(cfg)]
                    /\ cleanupPc' = "waiting"
               ELSE UNCHANGED <<cfg, cleanupPc>>
            /\ pc' = "prov"
            /\ started' = Append(started, "prov")
            /\ UNCHANGED ret
  /\ lastQuery' = "none"
  /\ UNCHANGED <<provPc, expected, result, monRet, scaleErr, deleteCalls>>
  /\ UNCHANGED <<auxVars, ctxVars, mainVars, scaleVars>>

\* Phase 1 returned (provTime, instanceCount, err): lines 155-162.
AfterProvisioning(provTime, instanceCount, err) ==
  /\ UNCHANGED scaleErr
  /\ monRet' = [monRet EXCEPT !["prov"] = MonitorReturned(provTime, err)]
  /\ provPc' = "sleep"
  /\ IF Failed(err)
     THEN /\ ReturnError(Wrap("prov", err))
          /\ UNCHANGED <<result, expected, started>>
     ELSE /\ result' = [result EXCEPT !.ProvisioningTime = provTime]
          /\ expected' = instanceCount
          /\ pc' = "reg"
          /\ started' = Append(started, "reg")
          /\ UNCHANGED ret

\* MonitorInstanceProvisioning: time.Sleep returns, then the timeout test.
ProvisioningSleep ==
  /\ Running /\ pc = "prov" /\ provPc = "sleep"
  /\ \E timedOut \in BOOLEAN : provPc' = IF timedOut THEN "prompt" ELSE "query"
  /\ lastQuery' = "none"
  /\ UNCHANGED <<pc, expected, result, ret, monRet, started, scaleErr>>
  /\ UNCHANGED <<auxVars, setupVars, ctxVars, mainVars, scaleVars, cleanupVars>>

\* MonitorInstanceProvisioning: one answer read at the timeout prompt.
ProvisioningPrompt ==
  /\ Running /\ pc = "prov" /\ provPc = "prompt"
  /\ \E answer \in Answers :
       CASE answer = "EOF" ->
              \E d \in Durations : AfterProvisioning(d, 0, "failed to read input")
         [] answer = "no" ->
              \E d \in Durations : AfterProvisioning(d, 0, "exiting due to user input")
         [] answer = "yes" ->
              /\ provPc' = "query"
              /\ UNCHANGED <<pc, expected, result, ret, monRet, started, scaleErr>>
         [] OTHER -> UNCHANGED execVars
  /\ lastQuery' = "none"
  /\ UNCHANGED <<auxVars, setupVars, ctxVars, mainVars, scaleVars, cleanupVars>>

\* The success test of MonitorInstanceProvisioning.
ProvisioningSeen(v) == v.n > 0 /\ v.first = "pending"

\* MonitorInstanceProvisioning: one GetEC2Instances call and the test of its result.
ProvisioningQuery ==
  /\ Running /\ pc = "prov" /\ provPc = "query"
  /\ \E v \in ProvisioningAnswers :
       IF v.err # Nil
       THEN \E d \in Durations : AfterProvisioning(d, 0, "error retrieving EC2 instances")
       ELSE IF ProvisioningSeen(v)
       THEN \E d \in Durations : AfterProvisioning(d, v.n, Nil)
       ELSE /\ provPc' = "sleep"
            /\ UNCHANGED <<pc, expected, result, ret, monRet, started, scaleErr>>
  /\ lastQuery' = "prov"
  /\ UNCHANGED <<auxVars, setupVars, ctxVars, mainVars, scaleVars, cleanupVars>>

\* Phase 2 returned (regTime, err): lines 163-170.
AfterRegistration(regTime, err) ==
  /\ UNCHANGED scaleErr
  /\ monRet' = [monRet EXCEPT !["reg"] = MonitorReturned(regTime, err)]
  /\ expected' = 0
  /\ IF Failed(err)
     THEN /\ ReturnError(Wrap("reg", err))
          /\ UNCHANGED <<result, started>>
     ELSE /\ result' = [result EXCEPT !.RegistrationTime = regTime]
          /\ pc' = "ready"
          /\ started' = Append(started, "ready")
          /\ UNCHANGED ret

\* MonitorNodeRegistration: case <-ctx.Done().
RegistrationCtxDone ==
  /\ Running /\ pc = "reg" /\ cancelled
  /\ \E d \in Durations : AfterRegistration(d, "context canceled")
  /\ lastQuery' = "none"
  /\ UNCHANGED provPc
  /\ UNCHANGED <<auxVars, setupVars, ctxVars, mainVars, scaleVars, cleanupVars>>

\* MonitorNodeRegistration: case <-logTicker.C.
RegistrationLogTick ==
  /\ Running /\ pc = "reg"
  /\ \E v \in NodesList(cancelled) : lastQuery' = Reached("reg")
  /\ UNCHANGED <<auxVars, setupVars, ctxVars, mainVars, execVars, scaleVars, cleanupVars>>

\* A mutant of RegistrationSeen: one ready node is enough.
RegistrationSeenAny(readyCount, expectedNodeCount) == readyCount >= 1

\* The success test of MonitorNodeRegistration.
RegistrationSeen(readyCount, expectedNodeCount) == readyCount >= expectedNodeCount

\* MonitorNodeRegistration: case <-ticker.C.
RegistrationTick ==
  /\ Running /\ pc = "reg"
  /\ \E v \in NodesList(cancelled) :
       IF v.err # Nil
       THEN AfterRegistration(0, "failed to list nodes")
       ELSE IF RegistrationSeen(v.ready, expected)
       THEN \E d \in Durations : AfterRegistration(d, Nil)
       ELSE UNCHANGED <<pc, expected, result, ret, monRet, started, scaleErr>>
  /\ lastQuery' = Reached("reg")
  /\ UNCHANGED provPc
  /\ UNCHANGED <<auxVars, setupVars, ctxVars, mainVars, scaleVars, cleanupVars>>

\* Phase 3 returned (podTime, err): lines 171-178.
AfterPodsReady(podTime, err) ==
  /\ UNCHANGED scaleErr
  /\ monRet' = [monRet EXCEPT !["ready"] = MonitorReturned(podTime, err)]
  /\ IF Failed(err)
     THEN /\ ReturnError(Wrap("ready", err))
          /\ UNCHANGED <<result, started>>
     ELSE /\ result' = [result EXCEPT !.PodReadinessTime = podTime]
          /\ pc' = "scale0"
          /\ started' = Append(started, "scale0")
          /\ UNCHANGED ret

\* WaitForPodsReady: case <-ctx.Done().
PodsReadyCtxDone ==
  /\ Running /\ pc = "ready" /\ cancelled
  /\ \E d \in Durations : AfterPodsReady(d, "context canceled")
  /\ lastQuery' = "none"
  /\ UNCHANGED <<provPc, expected>>
  /\ UNCHANGED <<auxVars, setupVars, ctxVars, mainVars, scaleVars, cleanupVars>>

\* WaitForPodsReady: case <-logTicker.C.
PodsReadyLogTick ==
  /\ Running /\ pc = "ready"
  /\ \E v \in DeploymentsGet(cancelled) : lastQuery' = Reached("ready")
  /\ UNCHANGED <<auxVars, setupVars, ctxVars, mainVars, execVars, scaleVars, cleanupVars>>

\* A mutant of PodsReadySeen: at least the target count is ready.
PodsReadySeenAtLeast(ReadyReplicas, replicas) == ReadyReplicas >= replicas

\* The success test of WaitForPodsReady.
PodsReadySeen(ReadyReplicas, replicas) == ReadyReplicas = replicas

\* WaitForPodsReady: case <-ticker.C.
PodsReadyTick ==
  /\ Running /\ pc = "ready"
  /\ \E v \in DeploymentsGet(cancelled) :
       IF v.err # Nil
       THEN AfterPodsReady(0, "failed to get deployment status")
       ELSE IF PodsReadySeen(v.ReadyReplicas, Replicas)
       THEN \E d \in Durations : AfterPodsReady(d, Nil)
       ELSE UNCHANGED <<pc, result, ret, monRet, started, scaleErr>>
  /\ lastQuery' = Reached("ready")
  /\ UNCHANGED <<provPc, expected>>
  /\ UNCHANGED <<auxVars, setupVars, ctxVars, mainVars, scaleVars, cleanupVars>>

\* A mutant of StartBranches: only the deregistration branch is started.
StartDeregistrationOnly == [b \in Branches |-> IF b = "dereg" THEN "polling" ELSE "idle"]

\* The two `go func()` statements of monitorDeregistrationAndTermination: both
\* branch goroutines run their monitors from the start of phase 5.
StartBranches == [b \in Branches |-> "polling"]


\* Phase 4, ScaleDeployment(..., 0), and the start of phase 5: the channels are
\* made and the two branch goroutines and the closing goroutine are started.
ScaleToZero ==
  /\ Running /\ pc = "scale0"
  /\ \E err \in DeploymentsWrite(cancelled) :
       /\ scaleErr' = err
       /\ IF Failed(err)
          THEN /\ ReturnError(Wrap("scale", err))
               /\ UNCHANGED <<started, br, wg, closerPc>>
          ELSE /\ pc' = "scaledown"
               /\ started' = Append(started, "scaledown")
               /\ br' = StartBranches
               /\ wg' = 2
               /\ closerPc' = "errChan"
               /\ UNCHANGED ret
  /\ lastQuery' = "none"
  /\ UNCHANGED <<provPc, expected, result, monRet>>
  /\ UNCHANGED <<brRet, retOrder, errChan, deregChan, termChan, i, deregTime, termTime,
                 coordRet, panicked>>
  /\ UNCHANGED <<auxVars, setupVars, ctxVars, mainVars, cleanupVars>>

\* ------------------------------ monitorDeregistrationAndTermination
\* A branch's monitor returns (duration, err) to its goroutine.
BranchReturns(b, duration, err) ==
  /\ br' = [br EXCEPT ![b] = "publish"]
  /\ brRet' = [brRet EXCEPT ![b] = MonitorReturned(duration, err)]
  /\ monRet' = [monRet EXCEPT ![b] = MonitorReturned(duration, err)]
  /\ retOrder' = Append(retOrder, b)

\* MonitorNodeDeregistration: case <-ctx.Done().
DeregistrationCtxDone ==
  /\ Running /\ br["dereg"] = "polling" /\ cancelled
  /\ \E d \in Durations : BranchReturns("dereg", d, "context canceled")
  /\ lastQuery' = "none"
  /\ UNCHANGED <<wg, closerPc, errChan, deregChan, termChan, i, deregTime, termTime,
                 coordRet, panicked>>
  /\ UNCHANGED <<pc, provPc, expected, result, ret, started, scaleErr>>
  /\ UNCHANGED <<auxVars, setupVars, ctxVars, mainVars, cleanupVars>>

\* MonitorNodeDeregistration: case <-logTicker.C.
DeregistrationLogTick ==
  /\ Running /\ br["dereg"] = "polling"
  /\ \E v \in NodesList(cancelled) : lastQuery' = Reached("dereg")
  /\ UNCHANGED <<auxVars, setupVars, ctxVars, mainVars, execVars, scaleVars, cleanupVars>>

\* MonitorNodeDeregistration: case <-ticker.C.
DeregistrationTick ==
  /\ Running /\ br["dereg"] = "polling"
  /\ \E v \in NodesList(cancelled) :
       IF v.err # Nil
       THEN BranchReturns("dereg", 0, "failed to list nodes")
       ELSE IF v.n = 0
       THEN \E d \in Durations : BranchReturns("dereg", d, Nil)
       ELSE UNCHANGED <<br, brRet, retOrder, monRet>>
  /\ lastQuery' = Reached("dereg")
  /\ UNCHANGED <<wg, closerPc, errChan, deregChan, termChan, i, deregTime, termTime,
                 coordRet, panicked>>
  /\ UNCHANGED <<pc, provPc, expected, result, ret, started, scaleErr>>
  /\ UNCHANGED <<auxVars, setupVars, ctxVars, mainVars, cleanupVars>>

\* MonitorInstanceTermination: case <-ctx.Done().
TerminationCtxDone ==
  /\ Running /\ br["term"] = "polling" /\ cancelled
  /\ BranchReturns("term", 0, "context canceled")
  /\ lastQuery' = "none"
  /\ UNCHANGED <<wg, closerPc, errChan, deregChan, termChan, i, deregTime, termTime,
                 coordRet, panicked>>
  /\ UNCHANGED <<pc, provPc, expected, result, ret, started, scaleErr>>
  /\ UNCHANGED <<auxVars, setupVars, ctxVars, mainVars, cleanupVars>>

\* MonitorInstanceTermination: case <-statusTicker.C.
TerminationLogTick ==
  /\ Running /\ br["term"] = "polling"
  /\ \E v \in TerminationAnswers :
       IF v.err # Nil
       THEN BranchReturns("term", 0, "failed to list instances")
       ELSE UNCHANGED <<br, brRet, retOrder, monRet>>
  /\ lastQuery' = "term"
  /\ UNCHANGED <<wg, closerPc, errChan, deregChan, termChan, i, deregTime, termTime,
                 coordRet, panicked>>
  /\ UNCHANGED <<pc, provPc, expected, result, ret, started, scaleErr>>
  /\ UNCHANGED <<auxVars, setupVars, ctxVars, mainVars, cleanupVars>>

\* MonitorInstanceTermination: case <-checkTicker.C.
TerminationTick ==
  /\ Running /\ br["term"] = "polling"
  /\ \E v \in TerminationAnswers :
       IF v.err # Nil
       THEN BranchReturns("term", 0, "failed to list instances")
       ELSE IF v.n = 0
       THEN \E d \in Durations : BranchReturns("term", d, Nil)
       ELSE UNCHANGED <<br, brRet, retOrder, monRet>>
  /\ lastQuery' = "term"
  /\ UNCHANGED <<wg, closerPc, errChan, deregChan, termChan, i, deregTime, termTime,
                 coordRet, panicked>>
  /\ UNCHANGED <<pc, provPc, expected, result, ret, started, scaleErr>>
  /\ UNCHANGED <<auxVars, setupVars, ctxVars, mainVars, cleanupVars>>

\* A mutant of CanSend: every channel holds one value less, so the two
\* duration channels are unbuffered and nobody is receiving.
CanSendOneLess(ch, cap) == ch.closed \/ Len(ch.buf) < cap - 1

\* ch <- v on a channel of capacity cap: possible when the buffer has room (or
\* the channel is closed, and then it panics).
CanSend(ch, cap) == ch.closed \/ Len(ch.buf) < cap
Send(ch, v) == IF ch.closed THEN ch ELSE [ch EXCEPT !.buf = Append(@, v)]

\* <-ch: possible when a value is buffered or the channel is closed.
CanReceive(ch) == ch.buf # <<>> \/ ch.closed
Received(ch, zero) == IF ch.buf # <<>> THEN Head(ch.buf) ELSE zero
AfterReceive(ch) == IF ch.buf # <<>> THEN [ch EXCEPT !.buf = Tail(@)] ELSE ch

\* close(ch): closing a closed channel panics.
Close(ch) == [ch EXCEPT !.closed = TRUE]

\* A panic ends the process with exit code 2.
Panic(now) ==
  /\ panicked' = (panicked \/ now)
  /\ IF now
     THEN mainPc' = "exited" /\ exitCode' = 2
     ELSE UNCHANGED <<mainPc, exitCode>>

\* A branch goroutine publishes what its monitor returned: lines 241-246, 253-258.
BranchPublish(b) ==
  /\ Running /\ br[b] = "publish"
  /\ IF brRet[b].err # Nil
     THEN /\ CanSend(errChan, ErrChanCap)
          /\ errChan' = Send(errChan, Wrap(b, brRet[b].err))
          /\ Panic(errChan.closed)
          /\ UNCHANGED <<deregChan, termChan>>
     ELSE IF b = "dereg"
     THEN /\ CanSend(deregChan, DeregChanCap)
          /\ deregChan' = Send(deregChan, brRet[b].dur)
          /\ Panic(deregChan.closed)
          /\ UNCHANGED <<errChan, termChan>>
     ELSE /\ CanSend(termChan, TermChanCap)
          /\ termChan' = Send(termChan, brRet[b].dur)
          /\ Panic(termChan.closed)
          /\ UNCHANGED <<errChan, deregChan>>
  /\ br' = [br EXCEPT ![b] = "done"]
  /\ lastQuery' = "none"
  /\ UNCHANGED <<brRet, retOrder, wg, closerPc, i, deregTime, termTime, coordRet, summary>>
  /\ UNCHANGED <<auxVars, setupVars, ctxVars, execVars, cleanupVars>>

\* The deferred wg.Done() of a branch goroutine.
BranchDone(b) ==
  /\ Running /\ br[b] = "done"
  /\ wg' = wg - 1
  /\ br' = [br EXCEPT ![b] = "exit"]
  /\ lastQuery' = "none"
  /\ UNCHANGED <<brRet, retOrder, closerPc, errChan, deregChan, termChan, i, deregTime, termTime,
                 coordRet, panicked>>
  /\ UNCHANGED <<auxVars, setupVars, ctxVars, mainVars, execVars, cleanupVars>>

\* The closing goroutine: wg.Wait() returns when the counter is 0, then the
\* three close statements, one at a time.
\* A mutant of WaitReturns: the closing goroutine does not wait.
WaitReturnsAtOnce(counter) == TRUE

\* wg.Wait() returns when the counter is zero.
WaitReturns(counter) == counter = 0

CloseErrChan ==
  /\ Running /\ closerPc = "errChan" /\ WaitReturns(wg)
  /\ errChan' = Close(errChan)
  /\ Panic(errChan.closed)
  /\ closerPc' = "deregChan"
  /\ lastQuery' = "none"
  /\ UNCHANGED <<br, brRet, retOrder, wg, deregChan, termChan, i, deregTime, termTime, coordRet,
                 summary>>
  /\ UNCHANGED <<auxVars, setupVars, ctxVars, execVars, cleanupVars>>

CloseDeregChan ==
  /\ Running /\ closerPc = "deregChan"
  /\ deregChan' = Close(deregChan)
  /\ Panic(deregChan.closed)
  /\ closerPc' = "termChan"
  /\ lastQuery' = "none"
  /\ UNCHANGED <<br, brRet, retOrder, wg, errChan, termChan, i, deregTime, termTime, coordRet,
                 summary>>
  /\ UNCHANGED <<auxVars, setupVars, ctxVars, execVars, cleanupVars>>

CloseTermChan ==
  /\ Running /\ closerPc = "termChan"
  /\ termChan' = Close(termChan)
  /\ Panic(termChan.closed)
  /\ closerPc' = "exit"
  /\ lastQuery' = "none"
  /\ UNCHANGED <<br, brRet, retOrder, wg, errChan, deregChan, i, deregTime, termTime, coordRet,
                 summary>>
  /\ UNCHANGED <<auxVars, setupVars, ctxVars, execVars, cleanupVars>>

\* The collecting loop is at its select.
Collecting == Running /\ pc = "scaledown" /\ i < 2

\* case err := <-errChan: a non-nil error ends the coordinator, and
\* executeBenchmark with it (lines 184-186, 272-275).
ReceiveErr ==
  /\ Collecting /\ CanReceive(errChan)
  /\ LET err == Received(errChan, NilErr)
     IN  IF err # NilErr
         THEN /\ coordRet' = [returned |-> TRUE, dereg |-> 0, term |-> 0, err |-> err]
              /\ ReturnError(err)
              /\ UNCHANGED i
         ELSE /\ i' = i + 1
              /\ UNCHANGED <<coordRet, pc, ret>>
  /\ errChan' = AfterReceive(errChan)
  /\ lastQuery' = "none"
  /\ UNCHANGED <<br, brRet, retOrder, wg, closerPc, deregChan, termChan, deregTime, termTime,
                 panicked>>
  /\ UNCHANGED <<provPc, expected, result, monRet, started, scaleErr>>
  /\ UNCHANGED <<auxVars, setupVars, ctxVars, mainVars, cleanupVars>>

\* case duration := <-deregChan.
ReceiveDereg ==
  /\ Collecting /\ CanReceive(deregChan)
  /\ deregTime' = Received(deregChan, 0)
  /\ deregChan' = AfterReceive(deregChan)
  /\ i' = i + 1
  /\ lastQuery' = "none"
  /\ UNCHANGED <<br, brRet, retOrder, wg, closerPc, errChan, termChan, termTime, coordRet,
                 panicked>>
  /\ UNCHANGED <<auxVars, setupVars, ctxVars, mainVars, execVars, cleanupVars>>

\* case duration := <-termChan.
ReceiveTerm ==
  /\ Collecting /\ CanReceive(termChan)
  /\ termTime' = Received(termChan, 0)
  /\ termChan' = AfterReceive(termChan)
  /\ i' = i + 1
  /\ lastQuery' = "none"
  /\ UNCHANGED <<br, brRet, retOrder, wg, closerPc, errChan, deregChan, deregTime, coordRet,
                 panicked>>
  /\ UNCHANGED <<auxVars, setupVars, ctxVars, mainVars, execVars, cleanupVars>>

\* The loop has run twice: the coordinator returns (deregTime, termTime, nil)
\* and executeBenchmark returns (result, nil): lines 285, 188-191.
CollectReturn ==
  /\ Running /\ pc = "scaledown" /\ i = 2
  /\ coordRet' = [returned |-> TRUE, dereg |-> deregTime, term |-> termTime,
                  err |-> NilErr]
  /\ result' = [result EXCEPT !.DeregistrationTime = deregTime,
                              !.TerminationTime = termTime]
  /\ pc' = "returned"
  /\ ret' = [returned |-> TRUE, ok |-> TRUE, res |-> result', err |-> NilErr]
  /\ lastQuery' = "none"
  /\ UNCHANGED <<br, brRet, retOrder, wg, closerPc, errChan, deregChan, termChan, i, deregTime,
                 termTime, panicked>>
  /\ UNCHANGED <<provPc, expected, monRet, started, scaleErr>>
  /\ UNCHANGED <<auxVars, setupVars, ctxVars, mainVars, cleanupVars>>

\* --------------------------------------------- RunBenchmark and main
\* executeBenchmark failed: RunBenchmark returns the error and main's
\* log.Fatalf exits with code 1 (deferred calls do not run).
MainFatal ==
  /\ mainPc = "run" /\ pc = "returned" /\ ret.err # NilErr
  /\ mainPc' = "exited" /\ exitCode' = 1
  /\ lastQuery' = "none"
  /\ UNCHANGED summary
  /\ UNCHANGED <<auxVars, setupVars, ctxVars, execVars, scaleVars, cleanupVars>>

\* executeBenchmark succeeded: RunBenchmark prints the summary and returns nil.
MainSummary ==
  /\ mainPc = "run" /\ pc = "returned" /\ ret.err = NilErr
  /\ summary' = <<ret.res.ProvisioningTime, ret.res.RegistrationTime,
                  ret.res.PodReadinessTime, ret.res.DeregistrationTime,
                  ret.res.TerminationTime>>
  /\ mainPc' = "defer"
  /\ lastQuery' = "none"
  /\ UNCHANGED exitCode
  /\ UNCHANGED <<auxVars, setupVars, ctxVars, execVars, scaleVars, cleanupVars>>

\* main returns: the deferred cancel() runs.
MainDeferredCancel ==
  /\ mainPc = "defer"
  /\ cancelled' = TRUE
  /\ mainPc' = "return"
  /\ lastQuery' = "none"
  /\ UNCHANGED <<signalled, sigAt, exitCode, summary>>
  /\ UNCHANGED <<auxVars, setupVars, execVars, scaleVars, cleanupVars>>

\* main has returned: the process exits with code 0.
MainExit ==
  /\ mainPc = "return"
  /\ mainPc' = "exited" /\ exitCode' = 0
  /\ lastQuery' = "none"
  /\ UNCHANGED summary
  /\ UNCHANGED <<auxVars, setupVars, ctxVars, execVars, scaleVars, cleanupVars>>

\* The goroutine of setupSignalHandler: a signal arrives and it calls cancel().
Signal ==
  /\ Running /\ ~signalled
  /\ signalled' = TRUE
  /\ cancelled' = TRUE
  /\ sigAt' = [pc |-> pc, polling |-> {m \in Monitors : Polling(m)}]
  /\ lastQuery' = "none"
  /\ UNCHANGED <<auxVars, setupVars, mainVars, execVars, scaleVars, cleanupVars>>

\* A mutant of Done: the receive does not wait for the cancellation.
DoneAtOnce(ctxCancelled) == TRUE

\* <-ctx.Done() returns once the context is cancelled.
Done(ctxCancelled) == ctxCancelled

\* The cleanup goroutine: <-ctx.Done() returns and DeleteDeployment is invoked.
CleanupDelete ==
  /\ Running /\ cleanupPc = "waiting" /\ Done(cancelled)
  /\ deleteCalls' = Append(deleteCalls, cfg.DeploymentName)
  /\ cleanupPc' = "deleting"
  /\ lastQuery' = "none"
  /\ UNCHANGED <<auxVars, setupVars, ctxVars, mainVars, execVars, scaleVars>>

\* DeleteDeployment returns (an error is only logged).
CleanupReturn ==
  /\ Running /\ cleanupPc = "deleting"
  /\ cleanupPc' = "exit"
  /\ lastQuery' = "none"
  /\ UNCHANGED deleteCalls
  /\ UNCHANGED <<auxVars, setupVars, ctxVars, mainVars, execVars, scaleVars>>

Next ==
  \/ setupAndCleanupDeployment
  \/ ProvisioningSleep \/ ProvisioningPrompt \/ ProvisioningQuery
  \/ RegistrationCtxDone \/ RegistrationLogTick \/ RegistrationTick
  \/ PodsReadyCtxDone \/ PodsReadyLogTick \/ PodsReadyTick
  \/ ScaleToZero
  \/ DeregistrationCtxDone \/ DeregistrationLogTick \/ DeregistrationTick
  \/ TerminationCtxDone \/ TerminationLogTick \/ TerminationTick
  \/ \E b \in Branches : BranchPublish(b)
  \/ \E b \in Branches : BranchDone(b)
  \/ CloseErrChan \/ CloseDeregChan \/ CloseTermChan
  \/ ReceiveErr \/ ReceiveDereg \/ ReceiveTerm \/ CollectReturn
  \/ MainFatal \/ MainSummary \/ MainDeferredCancel \/ MainExit
  \/ Signal
  \/ CleanupDelete \/ CleanupReturn

Spec == Init /\ [][Next]_vars

\* ------------------------------------------------------------ claims
Succeeded(m) == monRet[m].returned /\ monRet[m].err = Nil
PhaseOrder == <<"prov", "reg", "ready", "scale0", "scaledown">>

\* C1: the steps of executeBenchmark start in the order provisioning,
\* registration, pod readiness, scale-to-zero, scale-down pair; a step has
\* started only if the step before it returned without error; and no monitor
\* of a later phase polls while a monitor of an earlier phase polls.
C1_PhasesInOrder ==
  /\ started = SubSeq(PhaseOrder, 1, Len(started))
  /\ Len(started) >= 2 => Succeeded("prov")
  /\ Len(started) >= 3 => Succeeded("reg")
  /\ Len(started) >= 4 => Succeeded("ready")
  /\ Len(started) >= 5 => scaleErr = Nil
  /\ \A b \in Branches : br[b] # "idle" => Len(started) = 5
  /\ Polling("reg") => ~Polling("prov")
  /\ Polling("ready") => ~Polling("prov") /\ ~Polling("reg")
  /\ \A b \in Branches :
       Polling(b) => ~Polling("prov") /\ ~Polling("reg") /\ ~Polling("ready")

\* C1's case: every step has started and the scale-down pair is polling.
C1_Witness == started = PhaseOrder /\ Polling("dereg") /\ Polling("term")

\* C2: when both scale-down monitors returned a duration without error, the
\* coordinator returns (d, t, nil) with d the deregistration monitor's
\* duration and t the termination monitor's.
C2_BothDurationsReturned ==
  (coordRet.returned /\ Succeeded("dereg") /\ Succeeded("term"))
    => /\ coordRet.err = NilErr
       /\ coordRet.dereg = monRet["dereg"].dur
       /\ coordRet.term = monRet["term"].dur

\* C3: when a scale-down monitor has returned an error, the coordinator never
\* returns a nil error.
C3_BranchErrorReported ==
  (coordRet.returned /\ \E b \in Branches : monRet[b].returned /\ monRet[b].err # Nil)
    => coordRet.err # NilErr

\* C4: once the coordinator has returned an error, the context is cancelled and
\* no scale-down monitor queries its inventory any more.
C4_SiblingStopsQuerying ==
  (coordRet.returned /\ coordRet.err # NilErr)
    => cancelled /\ lastQuery \notin Branches

\* C5: when the deregistration monitor failed while the termination monitor had
\* not converged (it was polling, or returned a duration later), the
\* coordinator's outcome is the wrapped deregistration error; and an error is
\* never returned together with a non-zero duration.
C5_DeregistrationErrorWins ==
  /\ ( /\ coordRet.returned
       /\ retOrder # <<>> /\ retOrder[1] = "dereg"
       /\ monRet["dereg"].err # Nil /\ monRet["term"].err = Nil )
       => coordRet.err = Wrap("dereg", monRet["dereg"].err)
  /\ coordRet.err # NilErr => coordRet.dereg = 0 /\ coordRet.term = 0

\* C6: after a signal that arrived while a phase was polling, executeBenchmark
\* starts no later phase: it is still in that phase or has returned an error,
\* and the monitors that were polling return errors only.
C6_CancelStopsTheRun ==
  sigAt.polling # {}
    => /\ pc = sigAt.pc \/ (pc = "returned" /\ ret.err # NilErr)
       /\ \A m \in sigAt.polling : monRet[m].returned => monRet[m].err # Nil

\* C7: when the signal arrived while both scale-down monitors were polling and
\* this run created the deployment, the process exits only after both monitors
\* returned, with an error from the coordinator and DeleteDeployment invoked
\* exactly once.
C7_CancelledScaleDownCleansUp ==
  (mainPc = "exited" /\ sigAt.polling = Branches /\ created)
    => /\ \A b \in Branches : monRet[b].returned
       /\ coordRet.returned /\ coordRet.err # NilErr
       /\ Len(deleteCalls) = 1

\* C8: when a phase failed in a run that created its deployment, DeleteDeployment
\* has been invoked when the process exits.
C8_FailureCleansUp ==
  (mainPc = "exited" /\ created /\ ret.returned /\ ret.err # NilErr)
    => deleteCalls # <<>>

\* C9: DeleteDeployment is invoked only in a run that created its deployment.
C9_NoDeleteOfSuppliedDeployment == deleteCalls # <<>> => created

\* C10: executeBenchmark returns a result only when all five monitors returned
\* success, with their durations; with an error it returns no result, and no
\* summary is printed.
C10_ResultOnlyOnSuccess ==
  /\ (ret.returned /\ ret.ok)
       => /\ \A m \in Monitors : Succeeded(m)
          /\ ret.res = [ProvisioningTime |-> monRet["prov"].dur,
                        RegistrationTime |-> monRet["reg"].dur,
                        PodReadinessTime |-> monRet["ready"].dur,
                        DeregistrationTime |-> monRet["dereg"].dur,
                        TerminationTime |-> monRet["term"].dur]
  /\ (ret.returned /\ ret.err # NilErr) => ~ret.ok /\ summary = <<>>
  /\ summary # <<>> => ret.returned /\ ret.ok

\* ------------------------------------- one GetEC2Instances call, in detail
\* What MonitorInstanceProvisioning reads of a GetEC2Instances result.
ProvisioningView(out) ==
  [err |-> out.err, n |-> Len(out.instances),
   first |-> IF Len(out.instances) > 0 THEN out.instances[1].state ELSE "none"]

\* A mutant of ProvisioningVerdict: a failed query is tried again at the next round.
ProvisioningVerdictRetry(out) ==
  IF out.err = Nil /\ ProvisioningSeen(ProvisioningView(out))
  THEN [kind |-> "success", count |-> Len(out.instances)]
  ELSE [kind |-> "again", count |-> 0]

\* What MonitorInstanceProvisioning makes of a result: it returns an error, it
\* returns len(instances), or it goes round its loop again.
ProvisioningVerdict(out) ==
  IF out.err # Nil THEN [kind |-> "error", count |-> 0]
  ELSE IF ProvisioningSeen(ProvisioningView(out))
  THEN [kind |-> "success", count |-> Len(out.instances)]
  ELSE [kind |-> "again", count |-> 0]

\* The success test of MonitorInstanceTermination.
TerminationSeen(out) == Len(out.instances) = 0

\* What the checkTicker case of MonitorInstanceTermination makes of a result.
TerminationVerdict(out) ==
  IF out.err # Nil THEN [kind |-> "error", count |-> 0]
  ELSE IF TerminationSeen(out) THEN [kind |-> "success", count |-> 0]
  ELSE [kind |-> "again", count |-> Len(out.instances)]

\* One GetEC2Instances call of a monitor: the account holds the instances of
\* `page`, the API answers as Script(page, j, k, last) says.  The call's
\* time.Sleep calls take their time; the caller's startTime is a local of the
\* monitor that GetEC2Instances cannot reach, so the monitor's clock runs on.
DescribeFor(monitor, page, j, k, last) ==
  LET script == Script(page, j, k, last)
      out == GetEC2Instances(script)
  IN  /\ call' = [monitor |-> monitor, inventory |-> Listing(page, Len(page)),
                  script |-> script, out |-> out,
                  verdict |-> IF monitor = "prov" THEN ProvisioningVerdict(out)
                              ELSE TerminationVerdict(out)]
      /\ elapsed' = [elapsed EXCEPT ![monitor] = @ + SumSeq(out.slept)]

\* One round of MonitorInstanceProvisioning's loop from its GetEC2Instances call
\* on.  A behaviour of SpecEC2 is one call, made in the state Init describes.
MonitorInstanceProvisioningPoll ==
  /\ call = NoCall
  /\ \E page \in Pages, j \in 0..MaxInst, k \in 0..MaxRetries, last \in {Nil, "Other"} :
       j <= Len(page) /\ DescribeFor("prov", page, j, k, last)
  /\ UNCHANGED <<startup, stdout, setupVars, ctxVars, mainVars, execVars, scaleVars, cleanupVars, lastQuery>>
  /\ UNCHANGED <<seen, timeouts>>

\* One checkTicker case of MonitorInstanceTermination.
MonitorInstanceTerminationPoll ==
  /\ call = NoCall
  /\ \E page \in Pages, j \in 0..MaxInst, k \in 0..MaxRetries, last \in {Nil, "Other"} :
       j <= Len(page) /\ DescribeFor("term", page, j, k, last)
  /\ UNCHANGED <<startup, stdout, setupVars, ctxVars, mainVars, execVars, scaleVars, cleanupVars, lastQuery>>
  /\ UNCHANGED <<seen, timeouts>>

NextEC2 == MonitorInstanceProvisioningPoll \/ MonitorInstanceTerminationPoll

SpecEC2 == Init /\ [][NextEC2]_vars

\* The API's answers of the last call.
AllThrottled(script) ==
  Len(script) = MaxRetries /\ \A a \in 1..Len(script) : script[a].err = "Throttling"
AnsweredAtOnce(script) == Len(script) = 1 /\ script[1].err = Nil

\* The instances of this run that exist: launched after the program started
\* and not terminated.
RECURSIVE LiveInstances(_)
LiveInstances(inventory) ==
  IF inventory = <<>> THEN <<>>
  ELSE (IF Head(inventory).launch > ProgramStartTime /\ Head(inventory).state # "terminated"
        THEN <<Head(inventory)>> ELSE <<>>) \o LiveInstances(Tail(inventory))

\* C14: a GetEC2Instances call whose MaxRetries attempts were all throttled
\* returns an error, and a nil error comes only with the list of an attempt
\* that succeeded.
C14_ExhaustedRetriesFail ==
  call.monitor # "none" =>
    /\ AllThrottled(call.script) => call.out.err # Nil
    /\ call.out.err = Nil => call.script[Len(call.script)].err = Nil

\* C15: MonitorInstanceTermination reports the termination complete only when
\* no live instance of this run is left in the account.
C15_TerminationOnlyWhenGone ==
  (call.monitor = "term" /\ call.verdict.kind = "success") =>
    LiveInstances(call.inventory) = <<>>

\* C16: MonitorInstanceProvisioning succeeds at a poll whose filtered list holds
\* a pending instance at any position, and returns the length of that list.
C16_AnyPendingInstance ==
  (call.monitor = "prov" /\ call.out.err = Nil) =>
    /\ (\E n \in 1..Len(call.out.instances) : call.out.instances[n].state = "pending")
         <=> call.verdict.kind = "success"
    /\ call.verdict.kind = "success" => call.verdict.count = Len(call.out.instances)

\* C19: GetEC2Instances keeps exactly the instances launched at or after the
\* program's start that are not terminated.
C19_FilterKeepsFromStart ==
  (call.monitor # "none" /\ AnsweredAtOnce(call.script)) =>
    /\ \A n \in 1..Len(call.inventory) :
         (call.inventory[n].launch >= ProgramStartTime
            /\ call.inventory[n].state # "terminated")
         <=> \E m \in 1..Len(call.out.instances) :
               call.out.instances[m] = call.inventory[n]
    /\ Len(call.out.instances) <= Len(call.inventory)

\* ------------------------------- the polls of phases 1 to 3, in detail
\* The same ticks as ProvisioningQuery, RegistrationTick and PodsReadyTick, with
\* what the inventory answered kept in `seen`.
InstanceLists == { o.instances : o \in { x \in EC2Outcomes : x.err = Nil } }

ProvisioningPoll ==
  /\ Running /\ pc = "prov" /\ provPc = "query"
  /\ \E err \in {Nil, "describe"}, instances \in InstanceLists :
       LET out == [instances |-> IF err = Nil THEN instances ELSE <<>>, err |-> err]
           verdict == ProvisioningVerdict(out)
       IN  /\ err # Nil => instances = <<>>
           /\ seen' = [NoPoll EXCEPT !.monitor = "prov", !.err = err,
                                     !.instances = out.instances]
           /\ CASE verdict.kind = "error" ->
                     \E d \in Durations :
                       AfterProvisioning(d, 0, "error retrieving EC2 instances")
                [] verdict.kind = "success" ->
                     \E d \in Durations : AfterProvisioning(d, verdict.count, Nil)
                [] OTHER ->
                     /\ provPc' = "sleep"
                     /\ UNCHANGED <<pc, expected, result, ret, monRet, started, scaleErr>>
  /\ lastQuery' = "prov"
  /\ UNCHANGED <<call, elapsed, timeouts>>
  /\ UNCHANGED <<startup, stdout, setupVars, ctxVars, mainVars, scaleVars, cleanupVars>>

RegistrationPoll ==
  /\ Running /\ pc = "reg"
  /\ \E err \in IF cancelled THEN {"context canceled"} ELSE {Nil, "api"},
        nodes \in NodeLists :
       /\ err # Nil => nodes = <<>>
       /\ seen' = [NoPoll EXCEPT !.monitor = "reg", !.err = err, !.nodes = nodes]
       /\ IF err # Nil
          THEN AfterRegistration(0, "failed to list nodes")
          ELSE IF RegistrationSeen(countReadyNodes(nodes), expected)
          THEN \E d \in Durations : AfterRegistration(d, Nil)
          ELSE UNCHANGED <<pc, expected, result, ret, monRet, started, scaleErr>>
  /\ lastQuery' = Reached("reg")
  /\ UNCHANGED provPc
  /\ UNCHANGED <<call, elapsed, timeouts>>
  /\ UNCHANGED <<startup, stdout, setupVars, ctxVars, mainVars, scaleVars, cleanupVars>>

PodsReadyPoll ==
  /\ Running /\ pc = "ready"
  /\ \E err \in IF cancelled THEN {"context canceled"} ELSE {Nil, "api"},
        ReadyReplicas \in 0..(Replicas + 1) :
       /\ err # Nil => ReadyReplicas = 0
       /\ seen' = [NoPoll EXCEPT !.monitor = "ready", !.err = err,
                                 !.ReadyReplicas = ReadyReplicas]
       /\ IF err # Nil
          THEN AfterPodsReady(0, "failed to get deployment status")
          ELSE IF PodsReadySeen(ReadyReplicas, Replicas)
          THEN \E d \in Durations : AfterPodsReady(d, Nil)
          ELSE UNCHANGED <<pc, result, ret, monRet, started, scaleErr>>
  /\ lastQuery' = Reached("ready")
  /\ UNCHANGED <<provPc, expected>>
  /\ UNCHANGED <<call, elapsed, timeouts>>
  /\ UNCHANGED <<startup, stdout, setupVars, ctxVars, mainVars, scaleVars, cleanupVars>>

NextPolls ==
  \/ setupAndCleanupDeployment
  \/ ProvisioningSleep \/ ProvisioningPrompt \/ ProvisioningPoll
  \/ RegistrationCtxDone \/ RegistrationPoll
  \/ PodsReadyCtxDone \/ PodsReadyPoll
  \/ Signal \/ MainFatal

SpecPolls == Init /\ [][NextPolls]_vars

\* The nodes of a list that have the condition Ready = True.
ReadyNodes(nodes) ==
  { n \in 1..Len(nodes) : \E c \in 1..Len(nodes[n]) : nodes[n][c] = Ready }

\* C17: MonitorNodeRegistration is given the instance count the provisioning
\* monitor returned, and it succeeds only at a poll that listed at least that
\* many nodes with Ready = True, each node counted once.
C17_RegistrationCountsReadyNodes ==
  [][/\ (pc = "prov" /\ pc' = "reg") =>
          seen'.monitor = "prov" /\ expected' = Len(seen'.instances)
     /\ (pc = "reg" /\ pc' = "ready") =>
          /\ seen'.monitor = "reg" /\ seen'.err = Nil
          /\ Cardinality(ReadyNodes(seen'.nodes)) >= expected]_vars
C17_Witness ==
  /\ pc = "ready" /\ seen.monitor = "reg"
  /\ Len(seen.nodes) = 2 /\ Cardinality(ReadyNodes(seen.nodes)) = 1
  /\ seen.nodes[1] = <<Ready, Ready>>

\* C18: WaitForPodsReady returns success at a poll exactly when the
\* deployment's ready-replica count equals the target replica count.
C18_ReadyReplicasEqualTarget ==
  [][(pc = "ready" /\ seen'.monitor = "ready" /\ lastQuery' = "ready"
        /\ seen'.err = Nil) =>
       /\ (seen'.ReadyReplicas = Replicas) <=> (pc' = "scale0")
       /\ (seen'.ReadyReplicas # Replicas) <=> (pc' = "ready")
       /\ pc' = "scale0" => monRet'["ready"].returned /\ monRet'["ready"].err = Nil]_vars
C18_Witness ==
  /\ pc = "scale0" /\ seen.monitor = "ready" /\ seen.ReadyReplicas = Replicas
  /\ monRet["ready"].err = Nil

\* The monitors that take the context.
ContextAware == {"reg", "ready", "dereg", "term"}

\* C20: once the context is cancelled no query of a context-aware monitor
\* reaches its inventory, and a monitor that returns then returns an error.
C20_NoQueryAfterCancel ==
  [][cancelled =>
       /\ lastQuery' \notin ContextAware
       /\ \A m \in ContextAware :
            (~monRet[m].returned /\ monRet'[m].returned) => monRet'[m].err # Nil]_vars

\* ------------------------------------------- the monitors with their clocks
\* elapsed[m] is time.Since(startTime) of monitor m in seconds.  Time passes in
\* time.Sleep and between two ticks of a monitor's ticker; a query and a read
\* of the operator's answer take none.  The clocks stop at MaxClock.  A
\* predicate that turns true does so at its monitor's first poll (or at the
\* first poll after the operator's 'yes'); otherwise it stays false.

\* checkTicker := time.NewTicker(1 * time.Second) of MonitorInstanceTermination.
checkTickerInterval == 1

Interval(m) ==
  CASE m = "prov" -> ProvisioningSleepInterval
    [] m = "reg" -> NodeStatusPollInterval
    [] m = "ready" -> PodStatusPollInterval
    [] m = "dereg" -> NodeStatusPollInterval
    [] OTHER -> checkTickerInterval

\* The values LoadConfig gives Config.Timeouts: whole minutes, in seconds.
TimeoutConfigs == [Monitors -> { 60 * minutes : minutes \in 1..MaxTimeoutMin }]

\* A run with --deployment left empty and any timeout flags.
InitTimed ==
  /\ InitRun /\ cfg.DeploymentName = ""
  /\ call = NoCall /\ seen = NoPoll
  /\ elapsed = NotStarted /\ timeouts \in TimeoutConfigs
  /\ startup = Started /\ stdout = NoSummary

CanTick(m) == elapsed[m] + Interval(m) <= MaxClock

\* The two scale-down monitors start their clocks together, so their ticks come
\* in the order of their times (either order when the times are equal).
Earliest(b) ==
  \A o \in Branches :
    (br[o] = "polling" /\ CanTick(o)) => elapsed[b] + Interval(b) <= elapsed[o] + Interval(o)
Tick(m) == elapsed' = [elapsed EXCEPT ![m] = @ + Interval(m)]
MayConverge(m) == elapsed'[m] <= Interval(m)

\* A mutant of AfterYes: the answer 'yes' leaves startTime as it is.
AfterYesKeepsClock(e) == e

\* `startTime = time.Now()` on the answer 'yes'.
AfterYes(e) == [e EXCEPT !["prov"] = 0]

TimedProvisioningSleep ==
  /\ Running /\ pc = "prov" /\ provPc = "sleep" /\ CanTick("prov")
  /\ Tick("prov")
  /\ provPc' = IF elapsed'["prov"] >= timeout THEN "prompt" ELSE "query"
  /\ lastQuery' = "none"
  /\ UNCHANGED <<pc, expected, result, ret, monRet, started, scaleErr>>
  /\ UNCHANGED <<call, seen, timeouts>>
  /\ UNCHANGED <<startup, stdout, setupVars, ctxVars, mainVars, scaleVars, cleanupVars>>

TimedProvisioningPrompt ==
  /\ Running /\ pc = "prov" /\ provPc = "prompt"
  /\ \E input \in Inputs : LET answer == ReadAnswer(input) IN
       /\ seen' = [NoPoll EXCEPT !.monitor = "prov", !.answer = answer, !.input = input]
       /\ CASE answer = "EOF" ->
                 /\ AfterProvisioning(elapsed["prov"], 0, "failed to read input")
                 /\ UNCHANGED elapsed
            [] answer = "no" ->
                 /\ AfterProvisioning(elapsed["prov"], 0, "exiting due to user input")
                 /\ UNCHANGED elapsed
            [] answer = "yes" ->
                 /\ elapsed' = AfterYes(elapsed)
                 /\ provPc' = "query"
                 /\ UNCHANGED <<pc, expected, result, ret, monRet, started, scaleErr>>
            [] OTHER -> UNCHANGED <<execVars, elapsed>>
  /\ lastQuery' = "none"
  /\ UNCHANGED <<call, timeouts>>
  /\ UNCHANGED <<startup, stdout, setupVars, ctxVars, mainVars, scaleVars, cleanupVars>>

\* One query of MonitorInstanceProvisioning at its clock's time.  With anyPoll
\* the pending instances may show at any poll, and the operator's last answer
\* stays in `seen`.
ProvisioningRound(anyPoll) ==
  /\ Running /\ pc = "prov" /\ provPc = "query"
  /\ UNCHANGED elapsed
  /\ \E v \in ProvisioningAnswers :
       /\ (v.err = Nil /\ ProvisioningSeen(v)) => (anyPoll \/ MayConverge("prov"))
       /\ IF v.err # Nil
          THEN AfterProvisioning(elapsed["prov"], 0, "error retrieving EC2 instances")
          ELSE IF ProvisioningSeen(v)
          THEN AfterProvisioning(elapsed["prov"], v.n, Nil)
          ELSE /\ provPc' = "sleep"
               /\ UNCHANGED <<pc, expected, result, ret, monRet, started, scaleErr>>
  /\ lastQuery' = "prov"
  /\ seen' = [NoPoll EXCEPT !.monitor = "prov",
                            !.answer = IF anyPoll THEN seen.answer ELSE "none"]
  /\ UNCHANGED <<call, timeouts>>
  /\ UNCHANGED <<startup, stdout, setupVars, ctxVars, mainVars, scaleVars, cleanupVars>>

TimedProvisioningQuery == ProvisioningRound(FALSE)

\* MonitorNodeRegistration: the next tick of its ticker.
TimedRegistrationTick ==
  /\ Running /\ pc = "reg" /\ CanTick("reg")
  /\ Tick("reg")
  /\ \E v \in NodesList(cancelled) :
       /\ (v.err = Nil /\ RegistrationSeen(v.ready, expected)) => MayConverge("reg")
       /\ IF v.err # Nil
          THEN AfterRegistration(0, "failed to list nodes")
          ELSE IF RegistrationSeen(v.ready, expected)
          THEN AfterRegistration(elapsed'["reg"], Nil)
          ELSE UNCHANGED <<pc, expected, result, ret, monRet, started, scaleErr>>
  /\ lastQuery' = Reached("reg")
  /\ UNCHANGED provPc
  /\ UNCHANGED <<call, seen, timeouts>>
  /\ UNCHANGED <<startup, stdout, setupVars, ctxVars, mainVars, scaleVars, cleanupVars>>

\* WaitForPodsReady: the next tick of its ticker.
TimedPodsReadyTick ==
  /\ Running /\ pc = "ready" /\ CanTick("ready")
  /\ Tick("ready")
  /\ \E v \in DeploymentsGet(cancelled) :
       /\ (v.err = Nil /\ PodsReadySeen(v.ReadyReplicas, Replicas)) => MayConverge("ready")
       /\ IF v.err # Nil
          THEN AfterPodsReady(0, "failed to get deployment status")
          ELSE IF PodsReadySeen(v.ReadyReplicas, Replicas)
          THEN AfterPodsReady(elapsed'["ready"], Nil)
          ELSE UNCHANGED <<pc, result, ret, monRet, started, scaleErr>>
  /\ lastQuery' = Reached("ready")
  /\ UNCHANGED <<provPc, expected>>
  /\ UNCHANGED <<call, seen, timeouts>>
  /\ UNCHANGED <<startup, stdout, setupVars, ctxVars, mainVars, scaleVars, cleanupVars>>

\* MonitorNodeDeregistration: the next tick of its ticker.
TimedDeregistrationTick ==
  /\ Running /\ br["dereg"] = "polling" /\ CanTick("dereg") /\ Earliest("dereg")
  /\ Tick("dereg")
  /\ \E v \in NodesList(cancelled) :
       /\ (v.err = Nil /\ v.n = 0) => MayConverge("dereg")
       /\ IF v.err # Nil
          THEN BranchReturns("dereg", 0, "failed to list nodes")
          ELSE IF v.n = 0
          THEN BranchReturns("dereg", elapsed'["dereg"], Nil)
          ELSE UNCHANGED <<br, brRet, retOrder, monRet>>
  /\ lastQuery' = Reached("dereg")
  /\ UNCHANGED <<wg, closerPc, errChan, deregChan, termChan, i, deregTime, termTime,
                 coordRet, panicked>>
  /\ UNCHANGED <<pc, provPc, expected, result, ret, started, scaleErr>>
  /\ UNCHANGED <<call, seen, timeouts>>
  /\ UNCHANGED <<startup, stdout, setupVars, ctxVars, mainVars, cleanupVars>>

\* MonitorInstanceTermination: the next tick of its checkTicker.
TimedTerminationTick ==
  /\ Running /\ br["term"] = "polling" /\ CanTick("term") /\ Earliest("term")
  /\ Tick("term")
  /\ \E v \in TerminationAnswers :
       /\ (v.err = Nil /\ v.n = 0) => MayConverge("term")
       /\ IF v.err # Nil
          THEN BranchReturns("term", 0, "failed to list instances")
          ELSE IF v.n = 0
          THEN BranchReturns("term", elapsed'["term"], Nil)
          ELSE UNCHANGED <<br, brRet, retOrder, monRet>>
  /\ lastQuery' = "term"
  /\ UNCHANGED <<wg, closerPc, errChan, deregChan, termChan, i, deregTime, termTime,
                 coordRet, panicked>>
  /\ UNCHANGED <<pc, provPc, expected, result, ret, started, scaleErr>>
  /\ UNCHANGED <<call, seen, timeouts>>
  /\ UNCHANGED <<startup, stdout, setupVars, ctxVars, mainVars, cleanupVars>>

\* The run without a signal, up to the return of the scale-down monitors.
NextTimed ==
  \/ setupAndCleanupDeployment
  \/ TimedProvisioningSleep \/ TimedProvisioningPrompt \/ TimedProvisioningQuery
  \/ TimedRegistrationTick
  \/ TimedPodsReadyTick
  \/ ScaleToZero
  \/ TimedDeregistrationTick \/ TimedTerminationTick

SpecTimed == InitTimed /\ [][NextTimed]_vars

\* C11: a context-aware monitor whose predicate stays false returns (with a
\* timeout error) no later than one poll interval after its phase's deadline.
C11_MonitorsTimeOut ==
  \A m \in ContextAware : Polling(m) => elapsed[m] <= timeouts[m] + Interval(m)

\* C12: the provisioning monitor is at its operator prompt exactly when its
\* phase clock has reached Config.Timeouts.ProvisioningTimeout.
C12_PromptAtConfiguredTimeout ==
  pc = "prov" =>
    /\ provPc = "prompt" => elapsed["prov"] >= timeouts["prov"]
    /\ provPc = "query" => elapsed["prov"] < timeouts["prov"]

\* C13: at its timeout the provisioning monitor asks instead of querying;
\* 'yes' resets the phase clock and the loop goes on with its query, 'no'
\* returns the user-abort error and executeBenchmark fails before registration.
C13_PromptYesResetsNoAborts ==
  [][/\ (pc = "prov" /\ provPc = "sleep" /\ elapsed'["prov"] >= timeout) =>
          provPc' = "prompt" /\ lastQuery' # "prov"
     /\ (pc = "prov" /\ provPc = "prompt") =>
          /\ lastQuery' # "prov"
          /\ seen'.answer = "yes" =>
               pc' = "prov" /\ provPc' = "query" /\ elapsed'["prov"] = 0
          /\ seen'.answer = "no" =>
               /\ monRet'["prov"] = MonitorReturned(elapsed["prov"], "exiting due to user input")
               /\ pc' = "returned" /\ ~ret'.ok
               /\ ret'.err = Wrap("prov", "exiting due to user input")
               /\ started' = <<"prov">>]_vars
C13_Witness ==
  /\ pc = "prov" /\ provPc = "query" /\ seen.answer = "yes" /\ elapsed["prov"] = 0

\* ------------------------------------------------------------ log ticks
\* A step of some monitor's log (status) ticker case.
LogTickStep ==
  RegistrationLogTick \/ PodsReadyLogTick \/ DeregistrationLogTick \/ TerminationLogTick

\* C21: a log tick only prints a snapshot: it makes no monitor return and
\* changes no monitor's outcome, whatever its inventory query answers.
C21_LogTickKeepsOutcome ==
  [][LogTickStep => UNCHANGED <<monRet, br, pc>>]_vars

\* --------------------------------------------------- query errors on a poll
\* The message a monitor wraps round the error of its inventory query.
QueryError(m) ==
  CASE m = "prov" -> "error retrieving EC2 instances"
    [] m = "reg" -> "failed to list nodes"
    [] m = "ready" -> "failed to get deployment status"

\* In GetEC2Instances the first error that is not a throttling error ends the
\* call at that attempt: no later attempt, no further sleep, no instances.
NonThrottlingEndsCall ==
  \A script \in Scripts : \A k \in 1..Len(script) :
    (/\ script[k].err \notin {Nil, "Throttling"}
     /\ \A a \in 1..(k - 1) : script[a].err = "Throttling")
    => LET out == GetEC2Instances(script)
       IN  /\ out.err = "describe" /\ out.instances = <<>>
           /\ out.attempts = k /\ Len(out.slept) = k - 1

\* C22: a poll whose inventory query fails (not by throttling) makes the
\* monitor return that error wrapped, at that poll and without another query,
\* and executeBenchmark returns it without starting a later phase.
C22_QueryErrorEndsRun ==
  /\ NonThrottlingEndsCall
  /\ [][(pc \in {"prov", "reg", "ready"} /\ lastQuery' = pc
           /\ seen'.monitor = pc /\ seen'.err # Nil) =>
          /\ monRet'[pc].returned /\ monRet'[pc].err = QueryError(pc)
          /\ pc' = "returned" /\ ret'.returned /\ ~ret'.ok
          /\ ret'.err = Wrap(pc, QueryError(pc))
          /\ started' = started]_vars
C22_Witness ==
  /\ pc = "returned" /\ seen.monitor = "reg" /\ seen.err = "api"
  /\ started = <<"prov", "reg">> /\ monRet["reg"].err = "failed to list nodes"

\* ------------------------------------------------ the fan-in of phase 5
\* The channel a branch that has returned sends its outcome on, its capacity,
\* and the value it sends.
OutcomeChan(b) ==
  IF brRet[b].err # Nil THEN errChan ELSE IF b = "dereg" THEN deregChan ELSE termChan
OutcomeCap(b) ==
  IF brRet[b].err # Nil THEN ErrChanCap ELSE IF b = "dereg" THEN DeregChanCap ELSE TermChanCap
Outcome(b) == IF brRet[b].err # Nil THEN Wrap(b, brRet[b].err) ELSE brRet[b].dur
Buffered == Len(errChan.buf) + Len(deregChan.buf) + Len(termChan.buf)

\* A branch that is at its send finds room in an open channel.
SendNeverBlocks ==
  /\ ~panicked
  /\ \A b \in Branches :
       br[b] = "publish" => ~OutcomeChan(b).closed /\ Len(OutcomeChan(b).buf) < OutcomeCap(b)
  /\ closerPc \in {"deregChan", "termChan", "exit"} =>
       wg = 0 /\ \A b \in Branches : br[b] = "exit"
  /\ (\A b \in Branches : br[b] = "exit") => wg = 0

\* A branch sends once, after its monitor returned, the outcome of its monitor.
OneOutcomePerBranch ==
  /\ (\A b \in Branches : ~(br[b] = "publish" /\ br'[b] = "done")) => Buffered' <= Buffered
  /\ \A b \in Branches :
       /\ (br[b] # "publish" /\ br'[b] = "publish") => br[b] = "polling"
       /\ (br[b] = "publish" /\ br'[b] # "publish") =>
            /\ br'[b] = "done"
            /\ Buffered' = Buffered + 1
            /\ OutcomeChan(b)' = [OutcomeChan(b) EXCEPT !.buf = Append(@, Outcome(b))]
       /\ (br[b] = "done" /\ br'[b] # "done") => br'[b] = "exit" /\ wg' = wg - 1
       /\ br[b] = "exit" => br'[b] = "exit"

\* C23: each scale-down branch publishes one outcome, its send finds room in an
\* open channel in every interleaving (also after the coordinator returned on
\* the sibling's error), so the branch goroutines and the closing goroutine
\* run to their end.
C23_OneOutcomeSendNeverBlocks ==
  []SendNeverBlocks /\ [][OneOutcomePerBranch]_vars
C23_Witness ==
  /\ coordRet.returned /\ coordRet.err # NilErr
  /\ \A b \in Branches : br[b] = "exit" /\ brRet[b].err # Nil
  /\ Len(errChan.buf) = 1 /\ closerPc = "exit"

\* ------------------------------------------------- how many monitors poll
PollingMonitors == { m \in Monitors : Polling(m) }

\* C26: in the provisioning, registration and readiness phases at most one
\* monitor polls (the phase's own); the scale-down phase starts the
\* deregistration and the termination monitor, both, together, and no other.
C26_OneMonitorThenTwo ==
  /\ [](/\ pc \in {"prov", "reg", "ready"} =>
             Cardinality(PollingMonitors) <= 1 /\ PollingMonitors \subseteq {pc}
        /\ pc \notin {"prov", "reg", "ready"} => PollingMonitors \subseteq Branches
        /\ PollingMonitors \cap Branches # {} => Len(started) = 5)
  /\ [][/\ (pc # "scaledown" /\ pc' = "scaledown") =>
             PollingMonitors = {} /\ PollingMonitors' = Branches
        /\ \A b \in Branches : (~Polling(b) /\ Polling(b)') => pc' = "scaledown" /\ pc = "scale0"
       ]_vars
C26_Witness ==
  /\ pc = "scaledown" /\ PollingMonitors = {"dereg", "term"} /\ lastQuery = "term"

\* ------------------------------------------------------------ exit codes
\* C27: the process exits with code 0 only when the five monitors and the
\* scale-to-zero all succeeded, and with code 1 when a monitor failed (the
\* operator's 'no' is a failure of the provisioning monitor).
C27_ExitCodeTellsSuccess ==
  mainPc = "exited" =>
    /\ exitCode = 0 => (\A m \in Monitors : Succeeded(m)) /\ scaleErr = Nil
    /\ (\E m \in Monitors : monRet[m].returned /\ monRet[m].err # Nil) => exitCode = 1

\* ------------------------------------------------- the backoff of a call
\* C30: one GetEC2Instances call makes at most MaxRetries attempts, it sleeps
\* BaseBackoffDelay * 2^(k-1) seconds (1, 2, 4, 8, 16) after its k-th throttled
\* attempt, and the calling monitor's clock is not restarted: it has advanced
\* by the time slept.
C30_BoundedDoublingBackoff ==
  call.monitor # "none" =>
    LET out == call.out
    IN  /\ out.attempts \in 1..MaxRetries
        /\ Len(out.slept) =
             Cardinality({ a \in 1..out.attempts : call.script[a].err = "Throttling" })
        /\ \A k \in 1..Len(out.slept) : out.slept[k] = BaseBackoffDelay * 2^(k - 1)
        /\ out.slept = SubSeq(<<1, 2, 4, 8, 16>>, 1, Len(out.slept))
        /\ elapsed = [NotStarted EXCEPT ![call.monitor] = SumSeq(out.slept)]
C30_Witness ==
  /\ call.monitor = "term" /\ call.out.attempts = MaxRetries
  /\ call.out.slept = <<1, 2, 4, 8, 16>> /\ elapsed["term"] = 31

\* ------------------------------- the provisioning monitor with its clock
\* MonitorInstanceProvisioning alone, its predicate free to turn true at any
\* poll, before or after any number of prompts.
TimedProvisioningPoll == ProvisioningRound(TRUE)

NextProvisioning ==
  \/ setupAndCleanupDeployment
  \/ TimedProvisioningSleep \/ TimedProvisioningPrompt \/ TimedProvisioningPoll

SpecProvisioning == InitTimed /\ [][NextProvisioning]_vars

SummaryDurations == {0, 1000, 1234, 2996, 6000}

\* fmt's "%.2f" of d.Seconds(): the seconds rounded to hundredths, written as
\* the whole seconds and two decimals.
Format2f(ms) ==
  LET hundredths == (ms + 5) \div 10
  IN  [whole |-> hundredths \div 100, decimals |-> hundredths % 100]

NoValue == [whole |-> -1, decimals |-> 0]
TextLine(text) == [label |-> text, value |-> NoValue, unit |-> ""]
TimeLine(label, d) == [label |-> label, value |-> Format2f(d), unit |-> "seconds"]

\* The lines PrintSummary writes (colour codes and padding left out).
PrintSummary(provisioningTime, registrationTime, podReadinessTime, deregistrationTime, terminationTime) ==
  << TextLine(""),
     TextLine("Benchmarks Summary"),
     TextLine("--------------------------------------------"),
     TimeLine("Instance Initiation Time:", provisioningTime),
     TimeLine("Instance Registration Time:", registrationTime),
     TimeLine("Pod Readiness Time:", podReadinessTime),
     TimeLine("Instance Deregistration Time:", deregistrationTime),
     TimeLine("Instance Termination Time:", terminationTime),
     TextLine("--------------------------------------------"),
     TextLine("") >>

\* One call of PrintSummary with any five durations.
InitSummary ==
  /\ InitRun /\ cfg.DeploymentName = ""
  /\ call = NoCall /\ seen = NoPoll
  /\ elapsed = NotStarted /\ timeouts = DefaultTimeouts
  /\ startup = Started
  /\ stdout \in { [args |-> args, lines |-> <<>>] : args \in [1..5 -> SummaryDurations] }

PrintSummaryCall ==
  /\ stdout.lines = <<>>
  /\ stdout' = [stdout EXCEPT !.lines = PrintSummary(stdout.args[1], stdout.args[2],
                                                     stdout.args[3], stdout.args[4],
                                                     stdout.args[5])]
  /\ UNCHANGED <<setupVars, ctxVars, mainVars, execVars, scaleVars, cleanupVars, lastQuery>>
  /\ UNCHANGED <<call, seen, elapsed, timeouts, startup>>

NextSummary == PrintSummaryCall

SpecSummary == InitSummary /\ [][NextSummary]_vars

\* The labels TestPrintSummary looks for, in the order of the arguments.
ExpectedLabels ==
  << "Instance Initiation Time:", "Instance Readiness Time:", "Pod Readiness Time:",
     "Instance Deregistration Time:", "Instance Termination Time:" >>

Written(line) == \E n \in 1..Len(stdout.lines) : stdout.lines[n] = line

\* C28: PrintSummary writes the title and, for each of its five arguments in
\* order, the line of that argument's label followed by its seconds.
C28_SummaryLines ==
  stdout.lines # <<>> =>
    /\ Written(TextLine("Benchmarks Summary"))
    /\ \A k \in 1..5 : Written(TimeLine(ExpectedLabels[k], stdout.args[k]))

\* ------------------------------------------- main before executeBenchmark
\* Two programs start a run: cmd/k8s-autoscaler-benchmarker/main.go ("cmd":
\* LoadConfig, then RunBenchmark's initializeClients and setupAutoscaler) and
\* the older main ("legacy": parseFlags, initializeClients,
\* determineAutoscalerType).  startup.labelled is the number of nodes that
\* carry the label of the selected autoscaler when the run starts.
Entries == {"cmd", "legacy"}
NodepoolTags == {"", "benchmark"}
NodeGroups == {"", "workers"}
ConfigError == "specify either --nodepool or --node-group"
NotEmptyError == "node group is not empty"

StartupInputs ==
  [entry : Entries, NodepoolTag : NodepoolTags, NodeGroup : NodeGroups,
   labelled : 0..MaxNodes, stage : {"flags"}, calls : {<<>>}, err : {Nil}]

InitStartup ==
  /\ InitRun
  /\ call = NoCall /\ seen = NoPoll
  /\ elapsed = NotStarted /\ timeouts = DefaultTimeouts
  /\ startup \in StartupInputs /\ stdout = NoSummary

\* validateConfig: exactly one of the two selectors must be given.
validateConfig(c) ==
  IF (c.NodepoolTag # "" /\ c.NodeGroup # "") \/ (c.NodepoolTag = "" /\ c.NodeGroup = "")
  THEN ConfigError ELSE Nil

\* GetAutoscalerType, and the same test in GetLabelSelectorForAutoscaler,
\* GetTagKeyForAutoscaler, GetTagValueForAutoscaler and determineAutoscalerType.
GetAutoscalerType(nodepoolTag, nodeGroup) ==
  IF nodepoolTag # "" /\ nodeGroup = "" THEN "Karpenter"
  ELSE IF nodeGroup # "" /\ nodepoolTag = "" THEN "Cluster Autoscaler"
  ELSE "error"

\* A mutant of NodeGroupEmpty: the node group always counts as empty.
NodeGroupEmptyAlways(items) == TRUE

\* CheckNodeGroupEmpty: len(nodes.Items) == 0.
NodeGroupEmpty(items) == items = 0

\* The start goes on to the next stage, having made the client calls `made`.
StartupGoes(stage, made) ==
  /\ startup' = [startup EXCEPT !.stage = stage, !.calls = @ \o made]
  /\ UNCHANGED mainVars

\* The start ends the process: log.Fatalf exits with code 1, a panic with 2.
StartupEnds(err, code, made) ==
  /\ startup' = [startup EXCEPT !.stage = "fatal", !.err = err, !.calls = @ \o made]
  /\ mainPc' = "exited" /\ exitCode' = code
  /\ UNCHANGED summary

StartupFrame ==
  /\ UNCHANGED <<setupVars, ctxVars, execVars, scaleVars, cleanupVars, lastQuery>>
  /\ UNCHANGED <<call, seen, elapsed, timeouts, stdout>>

\* main of cmd: config.LoadConfig() and log.Fatalf on its error.
LoadConfig ==
  /\ startup.entry = "cmd" /\ startup.stage = "flags"
  /\ IF validateConfig(startup) # Nil
     THEN StartupEnds(validateConfig(startup), 1, <<>>)
     ELSE StartupGoes("clients", <<>>)
  /\ StartupFrame

\* The older main: parseFlags only reads the flags.
parseFlags ==
  /\ startup.entry = "legacy" /\ startup.stage = "flags"
  /\ StartupGoes("clients", <<>>)
  /\ StartupFrame

\* initializeClients of either program: the Kubernetes client is built from the
\* kubeconfig file without a request; the EC2 client is tried with
\* DescribeRegions.  A session error is returned by NewEC2Client and makes
\* session.Must of the older main panic.
initializeClients ==
  /\ startup.stage = "clients"
  /\ \E kubeErr \in {Nil, "failed to build kubeconfig"},
        awsErr \in {Nil, "failed to create AWS session", "failed to validate AWS credentials"} :
       IF kubeErr # Nil THEN StartupEnds(kubeErr, 1, <<>>)
       ELSE IF awsErr = "failed to create AWS session"
       THEN StartupEnds(awsErr, IF startup.entry = "cmd" THEN 1 ELSE 2, <<>>)
       ELSE IF awsErr # Nil THEN StartupEnds(awsErr, 1, <<"DescribeRegions">>)
       ELSE StartupGoes("autoscaler", <<"DescribeRegions">>)
  /\ StartupFrame

\* The emptiness check of the node group: Nodes().List with the node-group
\* label, then CheckNodeGroupEmpty's test.
VerifyNodeGroupEmpty ==
  \E listErr \in {Nil, "failed to list nodes"} :
    IF listErr # Nil THEN StartupEnds(listErr, 1, <<"ListNodes">>)
    ELSE IF ~NodeGroupEmpty(startup.labelled)
    THEN StartupEnds(NotEmptyError, 1, <<"ListNodes">>)
    ELSE StartupGoes("ready", <<"ListNodes">>)

\* setupAutoscaler of RunBenchmark, with VerifyAutoscalerReady.
setupAutoscaler ==
  /\ startup.entry = "cmd" /\ startup.stage = "autoscaler"
  /\ IF GetAutoscalerType(startup.NodepoolTag, startup.NodeGroup) = "error"
     THEN StartupEnds(ConfigError, 1, <<>>)
     ELSE IF startup.NodeGroup = "" THEN StartupGoes("ready", <<>>)
     ELSE VerifyNodeGroupEmpty
  /\ StartupFrame

\* determineAutoscalerType of the older main.
determineAutoscalerType ==
  /\ startup.entry = "legacy" /\ startup.stage = "autoscaler"
  /\ LET type == GetAutoscalerType(startup.NodepoolTag, startup.NodeGroup)
     IN  IF type = "Karpenter" THEN StartupGoes("ready", <<>>)
         ELSE IF type = "Cluster Autoscaler" THEN VerifyNodeGroupEmpty
         ELSE StartupEnds(ConfigError, 1, <<>>)
  /\ StartupFrame

\* executeBenchmark is called and creates or scales the deployment.
StartExecuteBenchmark == startup.stage = "ready" /\ setupAndCleanupDeployment

\* The start of a run up to the first phase, without a signal.
NextStartup ==
  \/ LoadConfig \/ parseFlags \/ initializeClients
  \/ setupAutoscaler \/ determineAutoscalerType
  \/ StartExecuteBenchmark

SpecStartup == InitStartup /\ [][NextStartup]_vars

NoPhaseStarted == started = <<>> /\ ~created /\ pc = "setup"

\* C24: with both selectors empty or both set the run makes no Kubernetes or
\* EC2 client call and starts no phase, and when it has ended it has ended with
\* the configuration error and exit code 1; with exactly one selector set the
\* run does not end with the configuration error.
C24_InvalidSelectorsFailFirst ==
  /\ validateConfig(startup) # Nil =>
       /\ startup.calls = <<>> /\ NoPhaseStarted /\ startup.stage # "ready"
       /\ startup.stage = "fatal" => startup.err = ConfigError /\ exitCode = 1
  /\ validateConfig(startup) = Nil => startup.err # ConfigError

\* C25: a run of the node-group variant that finds a node with the node-group
\* label ends (exit code 1) before the deployment is created or scaled and
\* before any phase; a run of the nodepool variant lists no nodes before its
\* first phase and never ends for nodes that exist.
C25_NodeGroupMustBeEmpty ==
  /\ (GetAutoscalerType(startup.NodepoolTag, startup.NodeGroup) = "Cluster Autoscaler"
        /\ startup.labelled > 0) =>
       /\ NoPhaseStarted /\ startup.stage # "ready"
       /\ (startup.stage = "fatal" /\ startup.err \notin {"failed to list nodes",
             "failed to build kubeconfig", "failed to create AWS session",
             "failed to validate AWS credentials"}) =>
            startup.err = NotEmptyError /\ exitCode = 1
  /\ GetAutoscalerType(startup.NodepoolTag, startup.NodeGroup) = "Karpenter" =>
       /\ \A n \in 1..Len(startup.calls) : startup.calls[n] # "ListNodes"
       /\ startup.err # NotEmptyError
C25_Witness ==
  /\ startup.entry = "cmd" /\ startup.NodeGroup = "workers" /\ startup.NodepoolTag = ""
  /\ startup.labelled = 1 /\ startup.stage = "fatal" /\ startup.err = NotEmptyError
  /\ startup.calls = <<"DescribeRegions", "ListNodes">> /\ exitCode = 1 /\ NoPhaseStarted

\* ------------------------------------------------ answers at the prompt
\* The line is the word w with white space before and after it only.
IsWord(line, w) ==
  \E n \in 1..Len(line) :
    /\ line[n] = w
    /\ \A k \in 1..Len(line) : k # n => line[k] \in WhiteSpace

\* C31: at the provisioning prompt an answer that is neither 'yes' nor 'no'
\* once its white space is trimmed, and only such an answer, repeats the
\* prompt; it sends no query and leaves the phase clock alone.  A failed read
\* makes the monitor return the read error, and executeBenchmark fails.
C31_OtherAnswersRepeatPrompt ==
  [][(pc = "prov" /\ provPc = "prompt") =>
       LET input == seen'.input
           other == input.err = Nil /\ ~IsWord(input.line, "yes") /\ ~IsWord(input.line, "no")
       IN  /\ other <=> (pc' = "prov" /\ provPc' = "prompt")
           /\ other => lastQuery' # "prov" /\ elapsed' = elapsed /\ monRet' = monRet
           /\ input.err # Nil =>
                /\ monRet'["prov"] = MonitorReturned(elapsed["prov"], "failed to read input")
                /\ pc' = "returned" /\ ~ret'.ok
                /\ ret'.err = Wrap("prov", "failed to read input")
                /\ lastQuery' # "prov"]_vars
C31_Witness ==
  /\ pc = "prov" /\ provPc = "prompt" /\ seen.input.line = <<"yes", " ", "no", "\n">>
  /\ seen.answer = "other" /\ elapsed["prov"] = timeout

\* ------------------------------------------------ the deployment's name
\* The names executeBenchmark passes on: deploymentCfg.DeploymentName as it is
\* when WaitForPodsReady and ScaleDeployment(..., 0) are called.
ReadinessDeployment == cfg.DeploymentName
ScaleDownDeployment == cfg.DeploymentName

\* C32: the deployment polled for readiness, scaled to zero and deleted by the
\* cleanup is the one SetupDeployment created (named after the container when
\* --deployment is empty) or scaled (the one --deployment names).
C32_OneDeploymentName ==
  /\ [][(pc = "setup" /\ pc' = "prov") =>
          deployed' = (IF cfg.DeploymentName = "" THEN cfg.ContainerName
                       ELSE cfg.DeploymentName)]_vars
  /\ [](/\ pc \in {"prov", "reg", "ready"} => ReadinessDeployment = deployed
        /\ pc = "scale0" => ScaleDownDeployment = deployed
        /\ \A n \in 1..Len(deleteCalls) : deleteCalls[n] = deployed
        /\ pc # "setup" /\ started # <<>> => deployed # "")
C32_Witness ==
  /\ created /\ deployed = "inflate" /\ deleteCalls = <<"inflate">>
  /\ Succeeded("ready") /\ scaleErr = Nil

\* --------------------------------------------- instances listed once
\* The ids of a list of instances are pairwise different.
NoDuplicates(instances) ==
  \A m, n \in 1..Len(instances) : m # n => instances[m].id # instances[n].id

\* C33: the list a GetEC2Instances call returns holds each instance at most
\* once, also after throttled attempts that had delivered instances; so the
\* count MonitorInstanceProvisioning returns is at most the number of
\* instances in the account's listing.
C33_EachInstanceOnce ==
  call.monitor # "none" =>
    /\ NoDuplicates(call.out.instances)
    /\ Len(call.out.instances) <= Len(call.inventory)
    /\ call.verdict.kind = "success" => call.verdict.count <= Len(call.inventory)

\* ------------------------------------------------ closing the channels
Channels == <<errChan, deregChan, termChan>>
Published(b) == br[b] \in {"done", "exit"}

\* C34: a channel of monitorDeregistrationAndTermination is closed only when
\* both branches have published, so no branch sends on a closed channel, and
\* each channel is closed once (a second close, like a send on a closed
\* channel, would panic).
C34_ClosedAfterBothPublished ==
  /\ [](/\ ~panicked /\ exitCode # 2
        /\ \A c \in 1..3 : Channels[c].closed => \A b \in Branches : Published(b)
        /\ \A b \in Branches : br[b] = "publish" => \A c \in 1..3 : ~Channels[c].closed)
  /\ [][\A c \in 1..3 :
          /\ Channels[c].closed => Channels'[c].closed
          /\ (~Channels[c].closed /\ Channels'[c].closed) =>
               /\ \A b \in Branches : Published(b)
               /\ Channels'[c].buf = Channels[c].buf]_vars
C34_Witness ==
  /\ \A c \in 1..3 : Channels[c].closed
  /\ closerPc = "exit" /\ ~panicked
  /\ Len(errChan.buf) = 1 /\ Len(deregChan.buf) = 1

\* --------------------------------------------- the collecting loop ends
\* The goroutines of monitorDeregistrationAndTermination once a monitor has
\* returned: the two branch goroutines (send, deferred wg.Done()), the closing
\* goroutine and the collecting loop. The Go scheduler runs every goroutine
\* that can take a step, so each of them is weakly fair; the monitors' polls,
\* the signal and main carry no fairness.
BranchGoroutine(b) == BranchPublish(b) \/ BranchDone(b)
ClosingGoroutine == CloseErrChan \/ CloseDeregChan \/ CloseTermChan
CollectingLoop == ReceiveErr \/ ReceiveDereg \/ ReceiveTerm \/ CollectReturn
ScaleDownFairness ==
  /\ \A b \in Branches : WF_vars(BranchGoroutine(b))
  /\ WF_vars(ClosingGoroutine)
  /\ WF_vars(CollectingLoop)

\* executeBenchmark is about to scale the deployment to zero: the deployment
\* was set up from the flags c and phases 1 to 3 returned without error (here
\* each with the duration MaxDur), no signal has arrived yet.
AtScaleToZero(c) ==
  /\ cfg = (IF RegistersCleanup(c) THEN [c EXCEPT !.DeploymentName = ActualName(c)] ELSE c)
  /\ created = (c.DeploymentName = "") /\ deployed = SetupDeployment(c)
  /\ cleanupPc = (IF RegistersCleanup(c) THEN "waiting" ELSE "none")
  /\ deleteCalls = <<>>
  /\ cancelled = FALSE /\ signalled = FALSE /\ sigAt = [pc |-> "none", polling |-> {}]
  /\ mainPc = "run" /\ exitCode = -1 /\ summary = <<>>
  /\ pc = "scale0" /\ provPc = "sleep" /\ expected = 0
  /\ result = [NoResult EXCEPT !.ProvisioningTime = MaxDur, !.RegistrationTime = MaxDur,
                               !.PodReadinessTime = MaxDur]
  /\ ret = NotReturned
  /\ monRet = [m \in Monitors |-> IF m \in Branches THEN MonitorRunning
                                                     ELSE MonitorReturned(MaxDur, Nil)]
  /\ started = <<"prov", "reg", "ready", "scale0">>
  /\ scaleErr = "pending" /\ retOrder = <<>>
  /\ br = [b \in Branches |-> "idle"] /\ brRet = [b \in Branches |-> MonitorRunning]
  /\ wg = 0 /\ closerPc = "idle"
  /\ errChan = OpenChan /\ deregChan = OpenChan /\ termChan = OpenChan
  /\ i = 0 /\ deregTime = 0 /\ termTime = 0
  /\ coordRet = CoordRunning /\ panicked = FALSE
  /\ lastQuery = "ready"
  /\ call = NoCall /\ seen = NoPoll
  /\ elapsed = NotStarted /\ timeouts = DefaultTimeouts
  /\ startup = Started /\ stdout = NoSummary

InitScaleDown ==
  \E c \in [DeploymentName : DeploymentNames, ContainerName : ContainerNames] : AtScaleToZero(c)

\* Phases 4 and 5 of executeBenchmark and what runs beside them.
NextScaleDown ==
  \/ ScaleToZero
  \/ DeregistrationCtxDone \/ DeregistrationLogTick \/ DeregistrationTick
  \/ TerminationCtxDone \/ TerminationLogTick \/ TerminationTick
  \/ \E b \in Branches : BranchPublish(b)
  \/ \E b \in Branches : BranchDone(b)
  \/ CloseErrChan \/ CloseDeregChan \/ CloseTermChan
  \/ ReceiveErr \/ ReceiveDereg \/ ReceiveTerm \/ CollectReturn
  \/ MainFatal \/ MainSummary \/ MainDeferredCancel \/ MainExit
  \/ Signal
  \/ CleanupDelete \/ CleanupReturn

SpecScaleDown == InitScaleDown /\ [][NextScaleDown]_vars /\ ScaleDownFairness

BothMonitorsReturned == \A b \in Branches : monRet[b].returned

\* C35: once both scale-down monitors have returned (a duration, an error or
\* a cancellation), monitorDeregistrationAndTermination eventually returns:
\* the collecting loop does not stay at its select for ever.
C35_CoordinatorReturns == BothMonitorsReturned ~> coordRet.returned
C35_Witness ==
  /\ BothMonitorsReturned /\ coordRet.returned
  /\ closerPc = "exit" /\ i = 2

\* ---------------------------------------------------------- cleanup
\* C36: in a run the cleanup's DeleteDeployment is invoked at most once, and
\* only when the run's context has been cancelled (by the signal handler or by
\* main's deferred cancel()).
C36_DeleteOnceAfterCancel ==
  /\ [](Len(deleteCalls) <= 1 /\ (deleteCalls # <<>> => cancelled))
  /\ [][deleteCalls' # deleteCalls =>
          /\ cancelled /\ deleteCalls = <<>>
          /\ cleanupPc = "waiting" /\ cleanupPc' = "deleting"]_vars
C36_Witness == Len(deleteCalls) = 1 /\ cancelled /\ cleanupPc = "exit"

\* The run succeeded: main returned after RunBenchmark returned nil.
SuccessfulExit == mainPc = "exited" /\ exitCode = 0 /\ ret.ok

\* C37: when a successful run that created its own deployment has exited,
\* the cleanup's DeleteDeployment has been invoked and has returned.
C37_DeletionCompletesBeforeExit ==
  (SuccessfulExit /\ created) => (deleteCalls # <<>> /\ cleanupPc = "exit")

\* C38: DeleteDeployment is invoked, and runs, only when no monitor of the
\* run is polling; in particular not while MonitorInstanceProvisioning is in
\* its loop (sleeping, querying or waiting at its prompt).
C38_CleanupNeverOverlapsPolling ==
  /\ [](cleanupPc = "deleting" => pc # "prov")
  /\ [][deleteCalls' # deleteCalls => \A m \in Monitors : ~Polling(m)]_vars
====
